---- MODULE Spec2Model ----
(***************************************************************************)
(* A model of the window/monitor state machine of dwm.cpp: the clients,    *)
(* the monitors with their two intrusive client lists, the tag sets, the   *)
(* focus discipline, the layouts and the monitor reconciliation.           *)
(*                                                                         *)
(* Pointers are window handles (clients) and list positions (monitors:     *)
(* monitors are only ever appended to and removed from the tail of the     *)
(* list, so the position identifies the object); 0 is the null pointer.    *)
(* The lists are kept as in the source: a head pointer in the monitor and  *)
(* a next/snext pointer in every client.                                   *)
(*                                                                         *)
(* A function of the source is an operator from the state W it finds (a    *)
(* record of the globals and the heap) to the state it leaves; where the   *)
(* source has a sequence of statements, the operator is the composition of *)
(* the operators of the statements, named after the function.              *)
(*                                                                         *)
(* Windows carry no WM_NORMAL_HINTS in this model (all size hint fields    *)
(* are 0, so isfixed is 0 and the hint block of applysizehints changes     *)
(* nothing).  The X server's own window state is modelled only where a     *)
(* property speaks about it (the border colour of a window).               *)
(***************************************************************************)
EXTENDS Integers, Sequences, FiniteSets, TLC

VARIABLES mons, selmon, heap, root, sw, sh, crashed, steps, drag

vars == <<mons, selmon, heap, root, sw, sh, crashed, steps, drag>>

-----------------------------------------------------------------------------
(* Bounds of the model *)

\* number of window handles the X server hands out
MaxClients == 2
\* std::size(tags) of the configuration
NTags == 2
\* number of events handled after setup in a behaviour (the release of the
\* button that ends a drag may come after them)
MaxSteps == 3

(* Configuration (config.hpp) and values fixed at startup *)

borderpx == 1
bh == 10
showbar == TRUE
topbar == TRUE
\* the master fraction, in hundredths
mfact == 55
nmaster == 1
snap == 4
lockfullscreen == TRUE

\* layouts[]: the symbol and the arrange function of each layout
layouts ==
    << [symbol |-> "[]=", arrange |-> "tile"],
       [symbol |-> "><>", arrange |-> "none"],
       [symbol |-> "[M]", arrange |-> "monocle"] >>

Windows == 1 .. MaxClients

-----------------------------------------------------------------------------
(* unsigned int bit operations *)

RECURSIVE And(_, _)
And(a, b) ==
    IF a = 0 \/ b = 0 THEN 0
    ELSE (a % 2) * (b % 2) + 2 * And(a \div 2, b \div 2)

RECURSIVE Or(_, _)
Or(a, b) ==
    IF a = 0 THEN b
    ELSE IF b = 0 THEN a
    ELSE (IF a % 2 = 1 \/ b % 2 = 1 THEN 1 ELSE 0) + 2 * Or(a \div 2, b \div 2)

RECURSIVE Xor(_, _)
Xor(a, b) ==
    IF a = 0 THEN b
    ELSE IF b = 0 THEN a
    ELSE ((a + b) % 2) + 2 * Xor(a \div 2, b \div 2)

TAGMASK == 2 ^ NTags - 1

Max(a, b) == IF a >= b THEN a ELSE b
Min(a, b) == IF a <= b THEN a ELSE b
abs(a) == IF a < 0 THEN -a ELSE a

-----------------------------------------------------------------------------
(* Objects *)

\* a Client as calloc leaves it; also what a freed client's slot holds
NoClient ==
    [ managed |-> FALSE,
      x |-> 0, y |-> 0, w |-> 0, h |-> 0,
      oldx |-> 0, oldy |-> 0, oldw |-> 0, oldh |-> 0,
      bw |-> 0, oldbw |-> 0,
      tags |-> 0,
      isfixed |-> FALSE, isfloating |-> FALSE, oldstate |-> FALSE,
      isfullscreen |-> FALSE, isurgent |-> FALSE, neverfocus |-> FALSE,
      next |-> 0, snext |-> 0, mon |-> 0,
      border |-> "none" ]

full_height(c) == c.h + 2 * c.bw
full_width(c) == c.w + 2 * c.bw

\* the tag set a monitor shows: m->tagset[m->seltags]
ActiveTags(m) == m.tagset[m.seltags + 1]

\* the layout a monitor uses: m->lt[m->sellt]
CurLayout(m) == layouts[m.lt[m.sellt + 1]]

ISVISIBLE(W, c) ==
    And(W.heap[c].tags, ActiveTags(W.mons[W.heap[c].mon])) # 0

INTERSECT(x, y, w, h, m) ==
    Max(0, Min(x + w, m.wx + m.ww) - Max(x, m.wx))
  * Max(0, Min(y + h, m.wy + m.wh) - Max(y, m.wy))

-----------------------------------------------------------------------------
(* The two intrusive lists.  Walk follows a pointer field from a head for  *)
(* at most fuel steps; a list longer than the number of windows is cyclic. *)

RECURSIVE Walk(_, _, _, _)
Walk(h, head, field, fuel) ==
    IF head = 0 \/ fuel = 0 THEN << >>
    ELSE <<head>> \o Walk(h, h[head][field], field, fuel - 1)

ClientList(W, m) == Walk(W.heap, W.mons[m].clients, "next", MaxClients + 1)
StackList(W, m) == Walk(W.heap, W.mons[m].stack, "snext", MaxClients + 1)

\* for (t = l; t && !ISVISIBLE(t); t = t->snext): the first client of the
\* list l that its monitor shows, or 0
RECURSIVE firstvisible(_, _)
firstvisible(W, l) ==
    IF l = << >> THEN 0
    ELSE IF ISVISIBLE(W, l[1]) THEN l[1]
    ELSE firstvisible(W, Tail(l))

\* attachstack without c->snext = c->mon->stack
attachstackNoLink(W, c) ==
    [W EXCEPT !.mons[W.heap[c].mon].stack = c]

attach(W, c) ==
    [W EXCEPT !.heap[c].next = W.mons[W.heap[c].mon].clients,
              !.mons[W.heap[c].mon].clients = c]

attachstack(W, c) ==
    [W EXCEPT !.heap[c].snext = W.mons[W.heap[c].mon].stack,
              !.mons[W.heap[c].mon].stack = c]

\* the client of the list l whose link holds c, or the last client of l
\* (whose null link ends the list) when none does
linkholder(W, l, c, field) ==
    IF \E i \in 1 .. Len(l) : W.heap[l[i]][field] = c
    THEN l[CHOOSE i \in 1 .. Len(l) :
               /\ W.heap[l[i]][field] = c
               /\ \A j \in 1 .. i - 1 : W.heap[l[j]][field] # c]
    ELSE l[Len(l)]

\* for (tc = &head; *tc && *tc != c; tc = &(*tc)->field); *tc = c->field
unlink(W, m, c, headfield, field) ==
    IF W.mons[m][headfield] = c \/ W.mons[m][headfield] = 0
    THEN [W EXCEPT !.mons[m][headfield] = W.heap[c][field]]
    ELSE [W EXCEPT
             !.heap[linkholder(W, Walk(W.heap, W.mons[m][headfield], field,
                                       MaxClients + 1), c, field)][field] =
                 W.heap[c][field]]

detach(W, c) == unlink(W, W.heap[c].mon, c, "clients", "next")

\* detachstack that leaves the selection as it is
detachstackKeepsSel(W, c) == W

\* the second half of detachstack: a new selection when c was selected
detachstackSel(W, c) ==
    IF W.mons[W.heap[c].mon].sel = c
    THEN [W EXCEPT !.mons[W.heap[c].mon].sel =
                       firstvisible(W, StackList(W, W.heap[c].mon))]
    ELSE W

detachstack(W, c) ==
    detachstackSel(unlink(W, W.heap[c].mon, c, "stack", "snext"), c)

\* the clients nexttiled yields from the list l
RECURSIVE nexttiled(_, _)
nexttiled(W, l) ==
    IF l = << >> THEN << >>
    ELSE IF W.heap[l[1]].isfloating \/ ~ISVISIBLE(W, l[1])
    THEN nexttiled(W, Tail(l))
    ELSE <<l[1]>> \o nexttiled(W, Tail(l))

-----------------------------------------------------------------------------
(* Geometry *)

\* c->mon
MonOf(W, c) == W.mons[W.heap[c].mon]

\* configure(c): one synthetic ConfigureNotify sent to the client
configure(W, c) == [W EXCEPT !.conf = @ + 1]

\* applysizehints on one axis.  p is *x or *y, s is *w or *h after
\* std::max(1, .), f the client's full width or height, scr is sw or sh,
\* lo and hi the ends of the monitor's window area.  First the test that
\* the window lies beyond the far end, then the test that it lies before
\* the near end.
sizehintsFar(p, f, interact, scr, hi) ==
    IF interact
    THEN IF p > scr THEN scr - f ELSE p
    ELSE IF p >= hi THEN hi - f ELSE p

sizehintsNear(p, s, bw, interact, lo) ==
    IF interact
    THEN IF p + s + 2 * bw < 0 THEN 0 ELSE p
    ELSE IF p + s + 2 * bw <= lo THEN lo ELSE p

\* applysizehints: the rectangle it leaves in *x, *y, *w, *h.  The size hint
\* fields are all 0 here, so the block guarded by resizehints (base, aspect,
\* increment, min and max size) leaves *w and *h as they are.
applysizehints(W, c, x, y, w, h, interact) ==
    [ x |-> sizehintsNear(
                sizehintsFar(x, full_width(W.heap[c]), interact, W.sw,
                             MonOf(W, c).wx + MonOf(W, c).ww),
                Max(1, w), W.heap[c].bw, interact, MonOf(W, c).wx),
      y |-> sizehintsNear(
                sizehintsFar(y, full_height(W.heap[c]), interact, W.sh,
                             MonOf(W, c).wy + MonOf(W, c).wh),
                Max(1, h), W.heap[c].bw, interact, MonOf(W, c).wy),
      w |-> Max(bh, Max(1, w)),
      h |-> Max(bh, Max(1, h)) ]

resizeclient(W, c, x, y, w, h) ==
    configure([W EXCEPT !.heap[c].oldx = W.heap[c].x, !.heap[c].x = x,
                        !.heap[c].oldy = W.heap[c].y, !.heap[c].y = y,
                        !.heap[c].oldw = W.heap[c].w, !.heap[c].w = w,
                        !.heap[c].oldh = W.heap[c].h, !.heap[c].h = h], c)

\* resize after applysizehints has left the rectangle r: resizeclient when
\* applysizehints returns non-zero
resizeTo(W, c, r) ==
    IF \/ r.x # W.heap[c].x \/ r.y # W.heap[c].y
       \/ r.w # W.heap[c].w \/ r.h # W.heap[c].h
    THEN resizeclient(W, c, r.x, r.y, r.w, r.h)
    ELSE W

resize(W, c, x, y, w, h, interact) ==
    resizeTo(W, c, applysizehints(W, c, x, y, w, h, interact))

\* showhide for one client: a visible client that is floating or on a
\* monitor without an arrange function, and not fullscreen, is resized to
\* its own geometry (which applies the size constraints again); hiding and
\* showing move the X window only
showhideClient(W, c) ==
    IF /\ ISVISIBLE(W, c)
       /\ (CurLayout(MonOf(W, c)).arrange = "none" \/ W.heap[c].isfloating)
       /\ ~W.heap[c].isfullscreen
    THEN resize(W, c, W.heap[c].x, W.heap[c].y, W.heap[c].w, W.heap[c].h, FALSE)
    ELSE W

RECURSIVE showhideList(_, _)
showhideList(W, l) ==
    IF l = << >> THEN W
    ELSE showhideList(showhideClient(W, l[1]), Tail(l))

\* showhide(m->stack)
showhide(W, m) == showhideList(W, StackList(W, m))

\* tile with a master column that is half of the window area whatever mfact
tilemwHalf(M, n) ==
    IF n > M.nmaster
    THEN IF M.nmaster # 0 THEN M.ww \div 2 ELSE 0
    ELSE M.ww

\* tile: the width of the master column
tilemw(M, n) ==
    IF n > M.nmaster
    THEN IF M.nmaster # 0 THEN (M.ww * M.mfact) \div 100 ELSE 0
    ELSE M.ww

\* tile: the resize of the client l[i + 1] in the loop over nexttiled, with
\* my and ty the heights used so far in the two columns
tileResize(W, M, l, i, my, ty, mw) ==
    IF i < M.nmaster
    THEN resize(W, l[i + 1], M.wx, M.wy + my,
                mw - 2 * W.heap[l[i + 1]].bw,
                (M.wh - my) \div (Min(Len(l), M.nmaster) - i)
                    - 2 * W.heap[l[i + 1]].bw, FALSE)
    ELSE resize(W, l[i + 1], M.wx + mw, M.wy + ty,
                M.ww - mw - 2 * W.heap[l[i + 1]].bw,
                (M.wh - ty) \div (Len(l) - i) - 2 * W.heap[l[i + 1]].bw, FALSE)

\* tile that never moves down in a column
tileAdvanceStays(W, M, c, used) == used

\* tile: my or ty after the client c was resized
tileAdvance(W, M, c, used) ==
    IF used + full_height(W.heap[c]) < M.wh
    THEN used + full_height(W.heap[c]) ELSE used

RECURSIVE tileLoop(_, _, _, _, _, _, _)

\* tile: the rest of the loop body, W being the state after the resize
tileNext(W, m, l, i, my, ty, mw) ==
    IF i < W.mons[m].nmaster
    THEN tileLoop(W, m, l, i + 1, tileAdvance(W, W.mons[m], l[i + 1], my), ty, mw)
    ELSE tileLoop(W, m, l, i + 1, my, tileAdvance(W, W.mons[m], l[i + 1], ty), mw)

tileLoop(W, m, l, i, my, ty, mw) ==
    IF i >= Len(l) THEN W
    ELSE tileNext(tileResize(W, W.mons[m], l, i, my, ty, mw), m, l, i, my, ty, mw)

\* tile: with no tiled client the loop has nothing to do
tile(W, m) ==
    tileLoop(W, m, nexttiled(W, ClientList(W, m)), 0, 0, 0,
             tilemw(W.mons[m], Len(nexttiled(W, ClientList(W, m)))))

\* the number of visible clients of the list l that are not floating
countvisibleTiled(W, l) == Len(nexttiled(W, l))

\* monocle: the number of visible clients in the list l
RECURSIVE countvisible(_, _)
countvisible(W, l) ==
    IF l = << >> THEN 0
    ELSE (IF ISVISIBLE(W, l[1]) THEN 1 ELSE 0) + countvisible(W, Tail(l))

RECURSIVE monocleLoop(_, _, _)
monocleLoop(W, m, l) ==
    IF l = << >> THEN W
    ELSE monocleLoop(
             resize(W, l[1], W.mons[m].wx, W.mons[m].wy,
                    W.mons[m].ww - 2 * W.heap[l[1]].bw,
                    W.mons[m].wh - 2 * W.heap[l[1]].bw, FALSE),
             m, Tail(l))

\* monocle: the number of visible clients, if any, becomes the layout
\* symbol; then every tiled client fills the window area
monocle(W, m) ==
    monocleLoop(
        IF countvisible(W, ClientList(W, m)) > 0
        THEN [W EXCEPT !.mons[m].ltsymbol =
                 "[" \o ToString(countvisible(W, ClientList(W, m))) \o "]"]
        ELSE W,
        m, nexttiled(W, ClientList(W, m)))

\* arrangemon: the layout's arrange function
arrangemonLayout(W, m) ==
    CASE CurLayout(W.mons[m]).arrange = "tile" -> tile(W, m)
      [] CurLayout(W.mons[m]).arrange = "monocle" -> monocle(W, m)
      [] OTHER -> W

arrangemon(W, m) ==
    arrangemonLayout(
        [W EXCEPT !.mons[m].ltsymbol = CurLayout(W.mons[m]).symbol], m)

\* restack(m) redraws the bar and sets the X stacking order of the windows;
\* it changes no field of a client or a monitor
restack(W, m) == W

\* the bar window of monitor m among the windows of the display, the
\* clients' windows being 1, 2, ...
barwin(m) == 0 - m

\* the stacking order z of the display, from the bottom to the top, with
\* the window w taken out
RECURSIVE unstacked(_, _)
unstacked(z, w) ==
    IF z = << >> THEN << >>
    ELSE IF z[1] = w THEN unstacked(Tail(z), w)
    ELSE <<z[1]>> \o unstacked(Tail(z), w)

\* XRaiseWindow: w goes to the top of the stacking order
XRaiseWindow(z, w) == unstacked(z, w) \o <<w>>

\* XConfigureWindow with CWSibling | CWStackMode and stack_mode Above: w is
\* placed just above the sibling
RECURSIVE XConfigureWindowAbove(_, _, _)
XConfigureWindowAbove(z, w, sibling) ==
    IF z = << >> THEN << >>
    ELSE IF z[1] = sibling
    THEN <<sibling, w>> \o unstacked(Tail(z), w)
    ELSE IF z[1] = w THEN XConfigureWindowAbove(Tail(z), w, sibling)
    ELSE <<z[1]>> \o XConfigureWindowAbove(Tail(z), w, sibling)

\* XConfigureWindow with CWSibling | CWStackMode and stack_mode Below: w is
\* placed just below the sibling
RECURSIVE XConfigureWindow(_, _, _)
XConfigureWindow(z, w, sibling) ==
    IF z = << >> THEN << >>
    ELSE IF z[1] = sibling
    THEN <<w, sibling>> \o unstacked(Tail(z), w)
    ELSE IF z[1] = w THEN XConfigureWindow(Tail(z), w, sibling)
    ELSE <<z[1]>> \o XConfigureWindow(Tail(z), w, sibling)

\* restack: if (m->sel->isfloating || !arrange) XRaiseWindow(m->sel->win)
restackRaise(W, m, z) ==
    IF W.heap[W.mons[m].sel].isfloating
           \/ CurLayout(W.mons[m]).arrange = "none"
    THEN XRaiseWindow(z, W.mons[m].sel)
    ELSE z

\* restack: the loop over m->stack, l being what is left of it and sibling
\* the value of wc.sibling
RECURSIVE restackLoop(_, _, _, _)
restackLoop(W, l, z, sibling) ==
    IF l = << >> THEN z
    ELSE IF ~W.heap[l[1]].isfloating /\ ISVISIBLE(W, l[1])
    THEN restackLoop(W, Tail(l), XConfigureWindow(z, l[1], sibling), l[1])
    ELSE restackLoop(W, Tail(l), z, sibling)

\* restack: if (arrange) { wc.sibling = m->barwin; for (...) ... }
restackTiled(W, m, z) ==
    IF CurLayout(W.mons[m]).arrange # "none"
    THEN restackLoop(W, StackList(W, m), z, barwin(m))
    ELSE z

\* restack(m): what it makes of the stacking order z of the display
restackOrder(W, m, z) ==
    IF W.mons[m].sel = 0 THEN z
    ELSE restackTiled(W, m, restackRaise(W, m, z))

RECURSIVE showhideAll(_, _)
showhideAll(W, m) ==
    IF m > Len(W.mons) THEN W ELSE showhideAll(showhide(W, m), m + 1)

RECURSIVE arrangemonAll(_, _)
arrangemonAll(W, m) ==
    IF m > Len(W.mons) THEN W ELSE arrangemonAll(arrangemon(W, m), m + 1)

\* arrange(m); m = 0 is arrange(nullptr)
arrange(W, m) ==
    IF m # 0
    THEN restack(arrangemon(showhide(W, m), m), m)
    ELSE arrangemonAll(showhideAll(W, 1), 1)

-----------------------------------------------------------------------------
(* Focus *)

\* unfocus(c, setfocus): the border of c's window gets the normal colour;
\* with setfocus the root window loses _NET_ACTIVE_WINDOW
unfocus(W, c, setfocus) ==
    IF c = 0 THEN W
    ELSE [W EXCEPT !.heap[c].border = "norm",
                   !.root.active = IF setfocus THEN 0 ELSE @]

\* seturgent(c, urg): c->isurgent = urg
seturgent(W, c, urg) == [W EXCEPT !.heap[c].isurgent = urg]

\* setfocus(c): a client that takes the input focus becomes the root
\* window's _NET_ACTIVE_WINDOW
setfocus(W, c) ==
    IF ~W.heap[c].neverfocus THEN [W EXCEPT !.root.active = c] ELSE W

\* focus: the client it focuses, c itself or the first visible client of
\* the selected monitor's focus history
focusTarget(W, c) ==
    IF c = 0 \/ ~ISVISIBLE(W, c)
    THEN firstvisible(W, StackList(W, W.selmon))
    ELSE c

\* focus without the unfocus of the client selected before
focusKeepsBorder(W, c) == W

\* focus: if (selmon->sel && selmon->sel != c) unfocus(selmon->sel, 0)
focusUnfocus(W, c) ==
    IF W.mons[W.selmon].sel # 0 /\ W.mons[W.selmon].sel # c
    THEN unfocus(W, W.mons[W.selmon].sel, FALSE)
    ELSE W

\* the block of focus without seturgent(c, 0)
focusClientKeepsUrgent(W, c) ==
    IF c = 0 THEN [W EXCEPT !.root.active = 0]
    ELSE setfocus(
             [attachstack(
                  detachstack([W EXCEPT !.selmon = W.heap[c].mon], c), c)
                 EXCEPT !.heap[c].border = "sel"], c)

\* focus: the block if (c) { ... } else { ... }
focusClient(W, c) ==
    IF c = 0 THEN [W EXCEPT !.root.active = 0]
    ELSE setfocus(
             [attachstack(
                  detachstack(
                      seturgent([W EXCEPT !.selmon = W.heap[c].mon], c, FALSE),
                      c), c)
                 EXCEPT !.heap[c].border = "sel"], c)

\* focus: selmon->sel = c, selmon being what the block before has left
focusSel(W, c) == [W EXCEPT !.mons[W.selmon].sel = c]

\* focus once the client to focus is known (0: none)
focusOn(W, c) == focusSel(focusClient(focusUnfocus(W, c), c), c)

\* focus(c); c = 0 is focus(nullptr)
focus(W, c) == focusOn(W, focusTarget(W, c))

-----------------------------------------------------------------------------
(* Monitors *)

createmon ==
    [ ltsymbol |-> layouts[1].symbol,
      mfact |-> mfact, nmaster |-> nmaster, num |-> 0, by |-> 0,
      mx |-> 0, my |-> 0, mw |-> 0, mh |-> 0,
      wx |-> 0, wy |-> 0, ww |-> 0, wh |-> 0,
      seltags |-> 0, sellt |-> 0, tagset |-> <<1, 1>>,
      showbar |-> showbar, topbar |-> topbar,
      clients |-> 0, sel |-> 0, stack |-> 0,
      lt |-> <<1, 1 + (1 % Len(layouts))>> ]

updatebarpos(m) ==
    IF m.showbar
    THEN [m EXCEPT !.wh = m.mh - bh,
                   !.by = IF m.topbar THEN m.my ELSE m.my + (m.mh - bh),
                   !.wy = IF m.topbar THEN m.my + bh ELSE m.my]
    ELSE [m EXCEPT !.wy = m.my, !.wh = m.mh, !.by = -bh]

\* recttomon: the loop over the monitors, r and area being its locals
RECURSIVE recttomonLoop(_, _, _, _, _, _, _, _)
recttomonLoop(W, x, y, w, h, m, r, area) ==
    IF m > Len(W.mons) THEN r
    ELSE IF INTERSECT(x, y, w, h, W.mons[m]) > area
    THEN recttomonLoop(W, x, y, w, h, m + 1, m,
                       INTERSECT(x, y, w, h, W.mons[m]))
    ELSE recttomonLoop(W, x, y, w, h, m + 1, r, area)

recttomon(W, x, y, w, h) == recttomonLoop(W, x, y, w, h, 1, W.selmon, 0)

\* wintoclient(w): 0 when no client of any monitor's list has the window
wintoclient(W, w) ==
    IF \E m \in 1 .. Len(W.mons) :
           \E i \in 1 .. Len(ClientList(W, m)) : ClientList(W, m)[i] = w
    THEN w ELSE 0

\* wintomon(w), with ptr the pointer position; window 0 is the root window
\* and no window is a bar window
wintomon(W, w, ptr) ==
    IF w = 0 THEN recttomon(W, ptr[1], ptr[2], 1, 1)
    ELSE IF wintoclient(W, w) # 0 THEN W.heap[w].mon
    ELSE W.selmon

dirtomon(W, dir) ==
    IF dir > 0
    THEN IF W.selmon = Len(W.mons) THEN 1 ELSE W.selmon + 1
    ELSE IF W.selmon = 1 THEN Len(W.mons) ELSE W.selmon - 1

\* isuniquegeom applied over the reported list: the rectangles in the order
\* of their first occurrence
RECURSIVE uniquegeoms(_, _)
uniquegeoms(info, unique) ==
    IF info = << >> THEN unique
    ELSE IF \E j \in 1 .. Len(unique) : unique[j] = info[1]
         THEN uniquegeoms(Tail(info), unique)
         ELSE uniquegeoms(Tail(info), Append(unique, info[1]))

\* updategeom: the monitor m gets its number i and the rectangle u
updategeomRect(m, i, u) ==
    updatebarpos([m EXCEPT !.num = i,
                           !.mx = u.x, !.wx = u.x, !.my = u.y, !.wy = u.y,
                           !.mw = u.w, !.ww = u.w, !.mh = u.h, !.wh = u.h])

\* updategeom, as many monitors or more: the loop that sets the geometry of
\* the first monitors, n being the number of monitors there were; R holds
\* the state and the local dirty
RECURSIVE updategeomSet(_, _, _, _)
updategeomSet(R, unique, n, i) ==
    IF i > Len(unique) \/ i > Len(R.W.mons) THEN R
    ELSE IF \/ i > n
            \/ unique[i].x # R.W.mons[i].mx \/ unique[i].y # R.W.mons[i].my
            \/ unique[i].w # R.W.mons[i].mw \/ unique[i].h # R.W.mons[i].mh
    THEN updategeomSet(
             [W |-> [R.W EXCEPT !.mons[i] =
                        updategeomRect(R.W.mons[i], i - 1, unique[i])],
              dirty |-> TRUE], unique, n, i + 1)
    ELSE updategeomSet(R, unique, n, i + 1)

\* the body of while ((c = m->clients)) with c->tags = mons->tagset[...]
\* added, as sendmon has it
updategeomMoveRetags(W, m, c) ==
    attachstack(attach(
        [detachstack([W EXCEPT !.mons[m].clients = W.heap[c].next], c)
            EXCEPT !.heap[c].mon = 1,
                   !.heap[c].tags = ActiveTags(W.mons[1])], c), c)

\* updategeom, fewer monitors: the body of while ((c = m->clients))
updategeomMoveClient(W, m, c) ==
    attachstack(attach(
        [detachstack([W EXCEPT !.mons[m].clients = W.heap[c].next], c)
            EXCEPT !.heap[c].mon = 1], c), c)

\* updategeom, fewer monitors: the clients of the last monitor m go to the
\* first one, one at a time from the head of m's client list
RECURSIVE updategeomMove(_, _)
updategeomMove(R, m) ==
    IF R.W.mons[m].clients = 0 THEN R
    ELSE updategeomMove(
             [W |-> updategeomMoveClient(R.W, m, R.W.mons[m].clients),
              dirty |-> TRUE], m)

\* cleanupmon(mon) for the last monitor of the list
cleanupmon(W, m) == [W EXCEPT !.mons = SubSeq(W.mons, 1, Len(W.mons) - 1)]

\* the end of the teardown loop's body without if (m == selmon) selmon = mons
updategeomKeepsSelmon(R, m) ==
    [W |-> cleanupmon(R.W, m), dirty |-> R.dirty]

\* updategeom, fewer monitors: if (m == selmon) selmon = mons; cleanupmon(m)
updategeomCleanup(R, m) ==
    [W |-> cleanupmon(IF m = R.W.selmon THEN [R.W EXCEPT !.selmon = 1]
                      ELSE R.W, m),
     dirty |-> R.dirty]

\* updategeom, fewer monitors: the loop over the monitors beyond the nn-th
RECURSIVE updategeomDrop(_, _)
updategeomDrop(R, nn) ==
    IF Len(R.W.mons) <= nn THEN R
    ELSE updategeomDrop(
             updategeomCleanup(updategeomMove(R, Len(R.W.mons)),
                               Len(R.W.mons)), nn)

RECURSIVE createmons(_, _)
createmons(ms, k) == IF k = 0 THEN ms ELSE createmons(Append(ms, createmon), k - 1)

\* updategeom: if (dirty) { selmon = mons; selmon = wintomon(root); }
updategeomSelmon(R, ptr) ==
    IF R.dirty
    THEN [W |-> [R.W EXCEPT !.selmon =
                    wintomon([R.W EXCEPT !.selmon = 1], 0, ptr)],
          dirty |-> TRUE]
    ELSE R

\* updategeom once the unique rectangles are known
updategeomUnique(W, unique, ptr) ==
    updategeomSelmon(
        IF Len(W.mons) <= Len(unique)
        THEN updategeomSet(
                 [W |-> [W EXCEPT !.mons =
                            createmons(W.mons, Len(unique) - Len(W.mons))],
                  dirty |-> FALSE], unique, Len(W.mons), 1)
        ELSE updategeomDrop([W |-> W, dirty |-> FALSE], Len(unique)),
        ptr)

\* updategeom with Xinerama active: info is the list of reported screens,
\* ptr the pointer position; the result is the state and the value returned
updategeom(W, info, ptr) == updategeomUnique(W, uniquegeoms(info, << >>), ptr)

-----------------------------------------------------------------------------
(* Rules *)

\* a C string is a sequence of characters; a null pattern is << >>, which
\* matches like the empty string does

\* strstr(haystack, needle) != nullptr
strstr(haystack, needle) ==
    \E i \in 1 .. Len(haystack) + 1 :
        /\ i + Len(needle) - 1 <= Len(haystack)
        /\ SubSeq(haystack, i, i + Len(needle) - 1) = needle

\* rules[] of the configuration
rules ==
    << [klass |-> <<"G", "i">>, instance |-> << >>, title |-> << >>,
        tags |-> 0, isfloating |-> TRUE, monitor |-> -1],
       [klass |-> <<"F", "x">>, instance |-> << >>, title |-> << >>,
        tags |-> 2 ^ (NTags - 1), isfloating |-> FALSE, monitor |-> -1],
       [klass |-> << >>, instance |-> << >>, title |-> <<"m", "1">>,
        tags |-> 2 ^ NTags + 1, isfloating |-> FALSE, monitor |-> 1],
       [klass |-> <<"F", "o", "o">>, instance |-> << >>, title |-> << >>,
        tags |-> 2, isfloating |-> TRUE, monitor |-> -1] >>

\* for (m = mons; m && m->num != r->monitor; m = m->next): the first
\* monitor of the list with that number, or 0
monitorByNum(W, num) ==
    IF \E m \in 1 .. Len(W.mons) : W.mons[m].num = num
    THEN CHOOSE m \in 1 .. Len(W.mons) :
             /\ W.mons[m].num = num
             /\ \A k \in 1 .. m - 1 : W.mons[k].num # num
    ELSE 0

\* applyrules with a rule that leaves the floating flag alone
applyrulesMatchKeepsFloating(W, C, r) ==
    [C EXCEPT !.tags = Or(C.tags, r.tags),
              !.mon = IF monitorByNum(W, r.monitor) # 0
                      THEN monitorByNum(W, r.monitor) ELSE C.mon]

\* applyrules with a rule whose tags replace those of the rules before it
applyrulesMatchOverwrites(W, C, r) ==
    [C EXCEPT !.isfloating = r.isfloating,
              !.tags = r.tags,
              !.mon = IF monitorByNum(W, r.monitor) # 0
                      THEN monitorByNum(W, r.monitor) ELSE C.mon]

\* applyrules: what a matching rule r does to the client record C
applyrulesMatch(W, C, r) ==
    [C EXCEPT !.isfloating = r.isfloating,
              !.tags = Or(C.tags, r.tags),
              !.mon = IF monitorByNum(W, r.monitor) # 0
                      THEN monitorByNum(W, r.monitor) ELSE C.mon]

RECURSIVE applyrulesLoop(_, _, _, _)
applyrulesLoop(W, C, hint, i) ==
    IF i > Len(rules) THEN C
    ELSE IF /\ strstr(hint.title, rules[i].title)
            /\ strstr(hint.klass, rules[i].klass)
            /\ strstr(hint.instance, rules[i].instance)
    THEN applyrulesLoop(W, applyrulesMatch(W, C, rules[i]), hint, i + 1)
    ELSE applyrulesLoop(W, C, hint, i + 1)

\* applyrules without the fallback to the monitor's active tag set
applyrulesNoDefault(W, C) == [C EXCEPT !.tags = And(C.tags, TAGMASK)]

\* applyrules: the last statement, on the record the loop leaves
applyrulesTags(W, C) ==
    [C EXCEPT !.tags = IF And(C.tags, TAGMASK) # 0
                       THEN And(C.tags, TAGMASK)
                       ELSE ActiveTags(W.mons[C.mon])]

\* applyrules(c) on the client record C; hint holds the class, the instance
\* and the title of the window
applyrules(W, C, hint) ==
    applyrulesTags(W,
        applyrulesLoop(W, [C EXCEPT !.isfloating = FALSE, !.tags = 0], hint, 1))

-----------------------------------------------------------------------------
(* Clients *)

\* setfullscreen(c, 1) that does not save the border width
setfullscreenOnForgetsBorder(W, c) ==
    resizeclient(
        [W EXCEPT !.heap[c].isfullscreen = TRUE,
                  !.heap[c].oldstate = W.heap[c].isfloating,
                  !.heap[c].bw = 0,
                  !.heap[c].isfloating = TRUE],
        c, MonOf(W, c).mx, MonOf(W, c).my, MonOf(W, c).mw, MonOf(W, c).mh)

\* setfullscreen(c, 1) on a client that is not fullscreen
setfullscreenOn(W, c) ==
    resizeclient(
        [W EXCEPT !.heap[c].isfullscreen = TRUE,
                  !.heap[c].oldstate = W.heap[c].isfloating,
                  !.heap[c].oldbw = W.heap[c].bw,
                  !.heap[c].bw = 0,
                  !.heap[c].isfloating = TRUE],
        c, MonOf(W, c).mx, MonOf(W, c).my, MonOf(W, c).mw, MonOf(W, c).mh)

\* setfullscreen(c, 0) on a fullscreen client, without the arrange
setfullscreenOffNoArrange(W, c) ==
    resizeclient(
        [W EXCEPT !.heap[c].isfullscreen = FALSE,
                  !.heap[c].isfloating = W.heap[c].oldstate,
                  !.heap[c].bw = W.heap[c].oldbw,
                  !.heap[c].x = W.heap[c].oldx,
                  !.heap[c].y = W.heap[c].oldy,
                  !.heap[c].w = W.heap[c].oldw,
                  !.heap[c].h = W.heap[c].oldh],
        c, W.heap[c].oldx, W.heap[c].oldy, W.heap[c].oldw, W.heap[c].oldh)

\* setfullscreen(c, 0) on a fullscreen client
setfullscreenOff(W, c) ==
    arrange(setfullscreenOffNoArrange(W, c), W.heap[c].mon)

\* setfullscreen that enters the fullscreen state again when the client is
\* in it
setfullscreenAgain(W, c, fullscreen) ==
    IF fullscreen THEN setfullscreenOn(W, c)
    ELSE IF W.heap[c].isfullscreen THEN setfullscreenOff(W, c)
    ELSE W

setfullscreen(W, c, fullscreen) ==
    IF fullscreen /\ ~W.heap[c].isfullscreen THEN setfullscreenOn(W, c)
    ELSE IF ~fullscreen /\ W.heap[c].isfullscreen THEN setfullscreenOff(W, c)
    ELSE W

\* manage: the client record after safe_calloc and the copy of the
\* window's attributes wa
manageNew(wa) ==
    [NoClient EXCEPT !.managed = TRUE,
                     !.x = wa.x, !.oldx = wa.x, !.y = wa.y, !.oldy = wa.y,
                     !.w = wa.w, !.oldw = wa.w, !.h = wa.h, !.oldh = wa.h,
                     !.oldbw = wa.bw]

\* manage: monitor and tags, from the client the window is transient for or
\* from selmon and the rules
manageOwner(W, C, trans, hint) ==
    IF trans # 0 /\ wintoclient(W, trans) # 0
    THEN [C EXCEPT !.mon = W.heap[trans].mon, !.tags = W.heap[trans].tags]
    ELSE applyrules(W, [C EXCEPT !.mon = W.selmon], hint)

\* manage: the client is moved into its monitor M, x first
manageFitX(C, M) ==
    [C EXCEPT !.x = Max(IF C.x + full_width(C) > M.mx + M.mw
                        THEN M.mx + M.mw - full_width(C) ELSE C.x,
                        M.mx)]

manageFitY(C, M) ==
    [C EXCEPT !.y = Max(IF C.y + full_height(C) > M.my + M.mh
                        THEN M.my + M.mh - full_height(C) ELSE C.y,
                        IF /\ M.by = M.my
                           /\ C.x + (C.w \div 2) >= M.wx
                           /\ C.x + (C.w \div 2) < M.wx + M.ww
                        THEN bh ELSE M.my)]

\* manage: the client is moved into its monitor; then c->bw = borderpx and
\* the window's border gets the normal colour
managePlace(W, C) ==
    [manageFitY(manageFitX(C, W.mons[C.mon]), W.mons[C.mon])
        EXCEPT !.bw = borderpx, !.border = "norm"]

\* manage: the client exists as the record C; configure(c)
manageStore(W, w, C) == configure([W EXCEPT !.heap[w] = C], w)

\* updatewindowtype: fs says that _NET_WM_STATE is _NET_WM_STATE_FULLSCREEN,
\* dialog that _NET_WM_WINDOW_TYPE is _NET_WM_WINDOW_TYPE_DIALOG
updatewindowtype(W, c, fs, dialog) ==
    IF dialog
    THEN [(IF fs THEN setfullscreen(W, c, TRUE) ELSE W)
             EXCEPT !.heap[c].isfloating = TRUE]
    ELSE IF fs THEN setfullscreen(W, c, TRUE) ELSE W

\* manage: if (!c->isfloating) c->isfloating = c->oldstate = trans != None
\* || c->isfixed
manageFloating(W, c, trans) ==
    IF ~W.heap[c].isfloating
    THEN [W EXCEPT !.heap[c].isfloating = (trans # 0 \/ W.heap[c].isfixed),
                   !.heap[c].oldstate = (trans # 0 \/ W.heap[c].isfixed)]
    ELSE W

\* manage: if (c->mon == selmon) unfocus(selmon->sel, 0)
manageUnfocus(W, c) ==
    IF W.heap[c].mon = W.selmon
    THEN unfocus(W, W.mons[W.selmon].sel, FALSE)
    ELSE W

\* manage: c->mon->sel = c; arrange(c->mon); focus(nullptr)
manageSel(W, c) ==
    focus(arrange([W EXCEPT !.mons[W.heap[c].mon].sel = c], W.heap[c].mon), 0)

\* manage up to attach(c); attachstack(c): the client is made, placed and
\* put into both lists of its monitor
manageAttach(W, w, wa, trans, hint, fs, dialog) ==
    attachstack(attach(
        manageFloating(
            updatewindowtype(
                manageStore(W, w,
                    managePlace(W,
                        manageOwner(W, manageNew(wa), trans, hint))),
                w, fs, dialog),
            w, trans), w), w)

\* manage: XChangeProperty(_NET_CLIENT_LIST, PropModeAppend) with the window
manageList(W, w) == [W EXCEPT !.root.clientlist = Append(@, w)]

\* manage(w, wa).  wa is the window's geometry and border width, trans its
\* WM_TRANSIENT_FOR window (0: none), hint its class, instance and title,
\* fs and dialog what _NET_WM_STATE and _NET_WM_WINDOW_TYPE say
manage(W, w, wa, trans, hint, fs, dialog) ==
    manageSel(
        manageUnfocus(
            manageList(manageAttach(W, w, wa, trans, hint, fs, dialog), w),
            w), w)

\* updateclientlist: the windows of the client lists of the monitors from m
\* on, in their order
RECURSIVE updateclientlistFrom(_, _)
updateclientlistFrom(W, m) ==
    IF m > Len(W.mons) THEN << >>
    ELSE ClientList(W, m) \o updateclientlistFrom(W, m + 1)

\* updateclientlist(): _NET_CLIENT_LIST is deleted and written anew
updateclientlist(W) ==
    [W EXCEPT !.root.clientlist = updateclientlistFrom(W, 1)]

\* unmanage without the new client list
unmanageKeepsList(W, c, destroyed) ==
    arrange(focus([detachstack(detach(W, c), c) EXCEPT !.heap[c] = NoClient], 0),
            W.heap[c].mon)

unmanage(W, c, destroyed) ==
    arrange(
        updateclientlist(
            focus([detachstack(detach(W, c), c) EXCEPT !.heap[c] = NoClient],
                  0)),
        W.heap[c].mon)

\* sendmon: c->mon = m; c->tags = m->tagset[m->seltags]
sendmonOwner(W, c, m) ==
    [W EXCEPT !.heap[c].mon = m, !.heap[c].tags = ActiveTags(W.mons[m])]

sendmon(W, c, m) ==
    IF W.heap[c].mon = m THEN W
    ELSE arrange(
             focus(attachstack(attach(
                       sendmonOwner(
                           detachstack(detach(unfocus(W, c, TRUE), c), c),
                           c, m), c), c), 0), 0)

pop(W, c) == arrange(focus(attach(detach(W, c), c), c), W.heap[c].mon)

-----------------------------------------------------------------------------
(* Event handlers.  Each takes the state W and the event's fields and      *)
(* gives the state the handler leaves.  Window 0 is the root window.       *)

CWX == 1
CWY == 2
CWWidth == 4
CWHeight == 8
CWBorderWidth == 16

\* configurerequest on a floating or unarranged client C of monitor M: the
\* four fields the mask names
requestPosition(C, M, mask, e) ==
    [C EXCEPT !.oldx = IF And(mask, CWX) # 0 THEN C.x ELSE C.oldx,
              !.x = IF And(mask, CWX) # 0 THEN M.mx + e.x ELSE C.x,
              !.oldy = IF And(mask, CWY) # 0 THEN C.y ELSE C.oldy,
              !.y = IF And(mask, CWY) # 0 THEN M.my + e.y ELSE C.y]

requestSize(C, mask, e) ==
    [C EXCEPT !.oldw = IF And(mask, CWWidth) # 0 THEN C.w ELSE C.oldw,
              !.w = IF And(mask, CWWidth) # 0 THEN e.w ELSE C.w,
              !.oldh = IF And(mask, CWHeight) # 0 THEN C.h ELSE C.oldh,
              !.h = IF And(mask, CWHeight) # 0 THEN e.h ELSE C.h]

\* configurerequest: a floating client that leaves its monitor is centred
requestCenter(C, M) ==
    [C EXCEPT !.x = IF C.x + C.w > M.mx + M.mw /\ C.isfloating
                    THEN M.mx + ((M.mw \div 2) - (full_width(C) \div 2))
                    ELSE C.x,
              !.y = IF C.y + C.h > M.my + M.mh /\ C.isfloating
                    THEN M.my + ((M.mh \div 2) - (full_height(C) \div 2))
                    ELSE C.y]

requestGeometry(C, M, mask, e) ==
    requestCenter(requestSize(requestPosition(C, M, mask, e), mask, e), M)

\* configurerequest: configure(c) when the request moves the window only
requestAck(W, c, mask) ==
    IF And(mask, CWX + CWY) # 0 /\ And(mask, CWWidth + CWHeight) = 0
    THEN configure(W, c) ELSE W

\* configurerequest: mask is ev->value_mask, e the requested values.  For a
\* window that is no client the request goes to the server as it came.
configurerequest(W, w, mask, e) ==
    IF wintoclient(W, w) = 0 THEN W
    ELSE IF And(mask, CWBorderWidth) # 0
    THEN [W EXCEPT !.heap[w].bw = e.bw]
    ELSE IF W.heap[w].isfloating \/ CurLayout(W.mons[W.selmon]).arrange = "none"
    THEN requestAck(
             [W EXCEPT !.heap[w] =
                 requestGeometry(W.heap[w], MonOf(W, w), mask, e)], w, mask)
    ELSE configure(W, w)

\* configurenotify: the fullscreen clients of the list l fill the monitor m
RECURSIVE configurenotifyFill(_, _, _)
configurenotifyFill(W, m, l) ==
    IF l = << >> THEN W
    ELSE configurenotifyFill(
             IF W.heap[l[1]].isfullscreen
             THEN resizeclient(W, l[1], W.mons[m].mx, W.mons[m].my,
                               W.mons[m].mw, W.mons[m].mh)
             ELSE W, m, Tail(l))

RECURSIVE configurenotifyFillAll(_, _)
configurenotifyFillAll(W, m) ==
    IF m > Len(W.mons) THEN W
    ELSE configurenotifyFillAll(configurenotifyFill(W, m, ClientList(W, m)),
                                m + 1)

\* configurenotify: what follows updategeom, which left R; dirty is the
\* handler's local
configurenotifyDirty(R, dirty) ==
    IF R.dirty \/ dirty
    THEN arrange(focus(configurenotifyFillAll(R.W, 1), 0), 0)
    ELSE R.W

\* configurenotify for the root window: scr is the new screen size and the
\* list of screens Xinerama reports, ptr the pointer position
configurenotify(W, scr, ptr) ==
    configurenotifyDirty(
        updategeom([W EXCEPT !.sw = scr.sw, !.sh = scr.sh], scr.info, ptr),
        W.sw # scr.sw \/ W.sh # scr.sh)

destroynotify(W, w) ==
    IF wintoclient(W, w) # 0 THEN unmanage(W, w, TRUE) ELSE W

\* unmapnotify that unmanages on a synthetic event too
unmapnotifySynthetic(W, w, send_event) ==
    IF wintoclient(W, w) # 0 THEN unmanage(W, w, FALSE) ELSE W

\* unmapnotify: a synthetic event only sets WM_STATE of the window
unmapnotify(W, w, send_event) ==
    IF wintoclient(W, w) # 0 /\ ~send_event THEN unmanage(W, w, FALSE) ELSE W

\* maprequest that manages override-redirect windows too
maprequestOverride(W, w, override_redirect, wa, trans, hint, fs, dialog) ==
    IF wintoclient(W, w) = 0
    THEN manage(W, w, wa, trans, hint, fs, dialog)
    ELSE W

\* maprequest: what the window's attributes and properties are is read from
\* the server when the event is handled
maprequest(W, w, override_redirect, wa, trans, hint, fs, dialog) ==
    IF override_redirect THEN W
    ELSE IF wintoclient(W, w) = 0
    THEN manage(W, w, wa, trans, hint, fs, dialog)
    ELSE W

\* clientmessage with message_type _NET_WM_STATE naming _FULLSCREEN;
\* action is data.l[0]: 0 remove, 1 add, 2 toggle
clientmessageState(W, w, action) ==
    IF wintoclient(W, w) = 0 THEN W
    ELSE setfullscreen(W, w,
             action = 1 \/ (action = 2 /\ ~W.heap[w].isfullscreen))

\* clientmessage for _NET_ACTIVE_WINDOW without the test c != selmon->sel
clientmessageActiveAny(W, w) ==
    IF wintoclient(W, w) = 0 THEN W
    ELSE IF ~W.heap[w].isurgent
    THEN seturgent(W, w, TRUE)
    ELSE W

\* clientmessage with message_type _NET_ACTIVE_WINDOW:
\*   if (c != selmon->sel && !c->isurgent) seturgent(c, 1)
clientmessageActive(W, w) ==
    IF wintoclient(W, w) = 0 THEN W
    ELSE IF w # W.mons[W.selmon].sel /\ ~W.heap[w].isurgent
    THEN seturgent(W, w, TRUE)
    ELSE W

\* updatewmhints: c->isurgent, for hints with or without XUrgencyHint
updatewmhintsUrgent(W, c, urgency) ==
    IF c = W.mons[W.selmon].sel /\ urgency THEN W
    ELSE [W EXCEPT !.heap[c].isurgent = urgency]

\* updatewmhints(c): wmh is what XGetWMHints returns, not given for a null
\* pointer; input is "unset" for hints without InputHint
updatewmhints(W, c, wmh) ==
    IF ~wmh.given THEN W
    ELSE [updatewmhintsUrgent(W, c, wmh.urgency) EXCEPT
             !.heap[c].neverfocus =
                 IF wmh.input = "unset" THEN FALSE ELSE wmh.input = "no"]

\* propertynotify for the atom XA_WM_HINTS of the window w, with a state
\* other than PropertyDelete
propertynotifyHints(W, w, wmh) ==
    IF wintoclient(W, w) = 0 THEN W ELSE updatewmhints(W, w, wmh)

\* enternotify once c and m are known
enternotifyFocus(W, c, m) ==
    IF m # W.selmon
    THEN focus([unfocus(W, W.mons[W.selmon].sel, TRUE) EXCEPT !.selmon = m], c)
    ELSE IF c = 0 \/ c = W.mons[W.selmon].sel THEN W
    ELSE focus(W, c)

\* enternotify: normal says that mode is NotifyNormal and detail is not
\* NotifyInferior
enternotify(W, w, normal, ptr) ==
    IF ~normal /\ w # 0 THEN W
    ELSE enternotifyFocus(W, IF w = 0 THEN 0 ELSE wintoclient(W, w),
                          wintomon(W, w, ptr))

\* buttonpress: focus monitor if necessary
buttonpressMon(W, m) ==
    IF m # W.selmon
    THEN focus([unfocus(W, W.mons[W.selmon].sel, TRUE) EXCEPT !.selmon = m], 0)
    ELSE W

\* buttonpress: the click is on a client window
buttonpressClient(W, w) ==
    IF w # 0 /\ wintoclient(W, w) # 0
    THEN restack(focus(W, w), W.heap[w].mon)
    ELSE W

\* buttonpress on a client window or on the root window, with no button
\* binding matching the click
buttonpress(W, w, ptr) ==
    buttonpressClient(buttonpressMon(W, wintomon(W, w, ptr)), w)

-----------------------------------------------------------------------------
(* User actions (the functions bound to keys and buttons) *)

\* selmon->sel
Sel(W) == W.mons[W.selmon].sel

\* arrange(selmon)
arrangeSelmon(W) == arrange(W, W.selmon)

\* view without the swap of the tag sets
viewKeepsSlot(W) == W

\* view: selmon->seltags ^= 1
viewSwap(W) ==
    [W EXCEPT !.mons[W.selmon].seltags = 1 - W.mons[W.selmon].seltags]

\* view that stores the new tag set in both slots
viewSetBoth(W, ui) ==
    IF And(ui, TAGMASK) # 0
    THEN [W EXCEPT !.mons[W.selmon].tagset = <<And(ui, TAGMASK), And(ui, TAGMASK)>>]
    ELSE W

\* view: if (arg->ui & TAGMASK) selmon->tagset[selmon->seltags] = ...
viewSet(W, ui) ==
    IF And(ui, TAGMASK) # 0
    THEN [W EXCEPT !.mons[W.selmon].tagset[W.mons[W.selmon].seltags + 1] =
                       And(ui, TAGMASK)]
    ELSE W

view(W, ui) ==
    IF And(ui, TAGMASK) = ActiveTags(W.mons[W.selmon]) THEN W
    ELSE arrangeSelmon(focus(viewSet(viewSwap(W), ui), 0))

\* toggleview without the test for an empty result
toggleviewAny(W, ui) ==
    arrangeSelmon(focus(
        [W EXCEPT !.mons[W.selmon].tagset[W.mons[W.selmon].seltags + 1] =
            Xor(ActiveTags(W.mons[W.selmon]), And(ui, TAGMASK))], 0))

toggleview(W, ui) ==
    IF Xor(ActiveTags(W.mons[W.selmon]), And(ui, TAGMASK)) # 0
    THEN arrangeSelmon(focus(
             [W EXCEPT !.mons[W.selmon].tagset[W.mons[W.selmon].seltags + 1] =
                 Xor(ActiveTags(W.mons[W.selmon]), And(ui, TAGMASK))], 0))
    ELSE W

tag(W, ui) ==
    IF Sel(W) # 0 /\ And(ui, TAGMASK) # 0
    THEN arrangeSelmon(focus([W EXCEPT !.heap[Sel(W)].tags = And(ui, TAGMASK)],
                             0))
    ELSE W

\* toggletag without the test of newtags
toggletagUnguarded(W, newtags) ==
    arrangeSelmon(focus([W EXCEPT !.heap[Sel(W)].tags = newtags], 0))

\* toggletag once newtags is known: if (newtags) { ... }
toggletagSet(W, newtags) ==
    IF newtags # 0
    THEN arrangeSelmon(focus([W EXCEPT !.heap[Sel(W)].tags = newtags], 0))
    ELSE W

toggletag(W, ui) ==
    IF Sel(W) = 0 THEN W
    ELSE toggletagSet(W, Xor(W.heap[Sel(W)].tags, And(ui, TAGMASK)))

tagmon(W, dir) ==
    IF Sel(W) = 0 \/ Len(W.mons) = 1 THEN W
    ELSE sendmon(W, Sel(W), dirtomon(W, dir))

\* focusmon once m = dirtomon(arg->i) is known
focusmonTo(W, m) ==
    IF m = W.selmon THEN W
    ELSE focus([unfocus(W, Sel(W), FALSE) EXCEPT !.selmon = m], 0)

focusmon(W, dir) ==
    IF Len(W.mons) = 1 THEN W ELSE focusmonTo(W, dirtomon(W, dir))

\* the part of the list l that follows the client c
RECURSIVE after(_, _)
after(l, c) ==
    IF l = << >> THEN << >>
    ELSE IF l[1] = c THEN Tail(l)
    ELSE after(Tail(l), c)

\* the part of the list l that precedes the client c
RECURSIVE before(_, _)
before(l, c) ==
    IF l = << >> \/ l[1] = c THEN << >>
    ELSE <<l[1]>> \o before(Tail(l), c)

\* the last client of the list l that its monitor shows, or 0
RECURSIVE lastvisible(_, _, _)
lastvisible(W, l, found) ==
    IF l = << >> THEN found
    ELSE lastvisible(W, Tail(l), IF ISVISIBLE(W, l[1]) THEN l[1] ELSE found)

\* focusstack, arg->i > 0: the next visible client after the selected one,
\* from the head of the list when there is none
focusstackNext(W, l) ==
    IF firstvisible(W, after(l, Sel(W))) # 0
    THEN firstvisible(W, after(l, Sel(W)))
    ELSE firstvisible(W, l)

\* focusstack, arg->i <= 0: the last visible client before the selected
\* one, the last visible client of the rest of the list when there is none
focusstackPrev(W, l) ==
    IF lastvisible(W, before(l, Sel(W)), 0) # 0
    THEN lastvisible(W, before(l, Sel(W)), 0)
    ELSE lastvisible(W, <<Sel(W)>> \o after(l, Sel(W)), 0)

\* focusstack: if (c) { focus(c); restack(selmon); }
focusstackTo(W, c) ==
    IF c # 0 THEN restack(focus(W, c), W.selmon) ELSE W

focusstack(W, dir) ==
    IF Sel(W) = 0 \/ (W.heap[Sel(W)].isfullscreen /\ lockfullscreen) THEN W
    ELSE focusstackTo(W, IF dir > 0
                         THEN focusstackNext(W, ClientList(W, W.selmon))
                         ELSE focusstackPrev(W, ClientList(W, W.selmon)))

\* togglefloating: the resize of a client that became floating
togglefloatingResize(W, c) ==
    IF W.heap[c].isfloating
    THEN resize(W, c, W.heap[c].x, W.heap[c].y, W.heap[c].w, W.heap[c].h, FALSE)
    ELSE W

togglefloating(W) ==
    IF Sel(W) = 0 THEN W
    ELSE IF W.heap[Sel(W)].isfullscreen THEN W
    ELSE arrangeSelmon(togglefloatingResize(
             [W EXCEPT !.heap[Sel(W)].isfloating =
                 ~W.heap[Sel(W)].isfloating \/ W.heap[Sel(W)].isfixed],
             Sel(W)))

\* the selector flipped for a null argument only
setlayoutSelltKept(M, v) ==
    IF v = 0 THEN [M EXCEPT !.sellt = 1 - M.sellt] ELSE M

\* setlayout: the slot in use after
\*   if (!arg || !arg->v || arg->v != selmon->lt[selmon->sellt])
\*       selmon->sellt ^= 1
setlayoutSellt(M, v) ==
    IF v = 0 \/ v # M.lt[M.sellt + 1]
    THEN [M EXCEPT !.sellt = 1 - M.sellt] ELSE M

\* setlayout: if (arg && arg->v) selmon->lt[selmon->sellt] = arg->v
setlayoutLt(M, v) ==
    IF v # 0 THEN [M EXCEPT !.lt[M.sellt + 1] = v] ELSE M

\* setlayout: v is the index of a layout in layouts[], 0 a null argument;
\* the monitor gets the symbol of the layout it uses now
setlayoutMon(W, v) ==
    [W EXCEPT !.mons[W.selmon] =
        [setlayoutLt(setlayoutSellt(W.mons[W.selmon], v), v) EXCEPT
            !.ltsymbol =
                CurLayout(setlayoutLt(setlayoutSellt(W.mons[W.selmon], v), v))
                    .symbol]]

\* killclient: what it sends for the selected client, nothing when there is
\* none; hasdelete says that the window takes part in WM_DELETE_WINDOW
\* (sendevent returns true). The list and focus state is left to the
\* destroy notify that follows.
killclient(W, hasdelete) ==
    IF Sel(W) = 0 THEN "nothing"
    ELSE IF hasdelete THEN "WM_DELETE_WINDOW"
    ELSE "XKillClient"

setlayout(W, v) ==
    IF Sel(W) # 0 THEN arrangeSelmon(setlayoutMon(W, v)) ELSE setlayoutMon(W, v)

\* zoom: the client pop is called with once the first tests have passed;
\* t is the list of the tiled clients of the selected monitor
zoomClient(W, t) ==
    IF Sel(W) = (IF t = << >> THEN 0 ELSE t[1])
    THEN IF Len(t) < 2 THEN 0 ELSE t[2]
    ELSE Sel(W)

\* zoom returns before pop
zoomReturns(W, t) ==
    \/ CurLayout(W.mons[W.selmon]).arrange = "none"
    \/ (Sel(W) # 0 /\ W.heap[Sel(W)].isfloating)
    \/ (Sel(W) = (IF t = << >> THEN 0 ELSE t[1]) /\ (Sel(W) = 0 \/ Len(t) < 2))

\* zoom reaches pop(c) with c = nullptr when nothing is selected and the
\* monitor shows a tiled client
zoomCrashes(W) ==
    /\ ~zoomReturns(W, nexttiled(W, ClientList(W, W.selmon)))
    /\ zoomClient(W, nexttiled(W, ClientList(W, W.selmon))) = 0

zoom(W) ==
    IF zoomReturns(W, nexttiled(W, ClientList(W, W.selmon))) THEN W
    ELSE pop(W, zoomClient(W, nexttiled(W, ClientList(W, W.selmon))))

\* movemouse: nx (ny likewise) snapped to the edges of the window area that
\* starts at lo and is len long; full is the client's full width (height)
movemouseSnap(n, lo, len, full) ==
    IF abs(lo - n) < snap THEN lo
    ELSE IF abs((lo + len) - (n + full)) < snap THEN lo + len - full
    ELSE n

\* movemouse: a tiled client dragged further than snap becomes floating
movemouseFloat(W, c, nx, ny) ==
    IF /\ ~W.heap[c].isfloating
       /\ CurLayout(W.mons[W.selmon]).arrange # "none"
       /\ (abs(nx - W.heap[c].x) > snap \/ abs(ny - W.heap[c].y) > snap)
    THEN togglefloating(W) ELSE W

\* movemouse: the resize that follows
movemouseResize(W, c, nx, ny) ==
    IF CurLayout(W.mons[W.selmon]).arrange = "none" \/ W.heap[c].isfloating
    THEN resize(W, c, nx, ny, W.heap[c].w, W.heap[c].h, TRUE)
    ELSE W

\* movemouse, one MotionNotify once nx and ny are known
movemouseTo(W, c, nx, ny) ==
    movemouseResize(movemouseFloat(W, c, nx, ny), c, nx, ny)

\* movemouse, one MotionNotify of its loop: ocx, ocy is where the client was
\* when the drag began, d how far the pointer is from where it was then
movemouseMotion(W, c, ocx, ocy, d) ==
    movemouseTo(W, c,
        movemouseSnap(ocx + d[1], W.mons[W.selmon].wx, W.mons[W.selmon].ww,
                      full_width(W.heap[c])),
        movemouseSnap(ocy + d[2], W.mons[W.selmon].wy, W.mons[W.selmon].wh,
                      full_height(W.heap[c])))

RECURSIVE movemouseLoop(_, _, _, _, _)
movemouseLoop(W, c, ocx, ocy, motions) ==
    IF motions = << >> THEN W
    ELSE movemouseLoop(movemouseMotion(W, c, ocx, ocy, motions[1]),
                       c, ocx, ocy, Tail(motions))

\* the end of the drag without the change of the selected monitor
movemouseEndStays(W, c, m) ==
    IF m # W.selmon
    THEN focus(sendmon(W, c, m), 0)
    ELSE W

\* movemouse, after the button is released, m being the monitor the client
\* is on most
movemouseEnd(W, c, m) ==
    IF m # W.selmon
    THEN focus([sendmon(W, c, m) EXCEPT !.selmon = m], 0)
    ELSE W

\* movemouse, when the loop has left W
movemouseRelease(W, c) ==
    movemouseEnd(W, c, recttomon(W, W.heap[c].x, W.heap[c].y,
                                 W.heap[c].w, W.heap[c].h))

\* movemouse: motions are the MotionNotify events the loop handles before
\* the button is released (no other event arrives meanwhile)
movemouse(W, motions) ==
    IF Sel(W) = 0 THEN W
    ELSE IF W.heap[Sel(W)].isfullscreen THEN W
    ELSE movemouseRelease(
             movemouseLoop(restack(W, W.selmon), Sel(W),
                           W.heap[Sel(W)].x, W.heap[Sel(W)].y, motions),
             Sel(W))


\* incnmaster: selmon->nmaster = max(selmon->nmaster + arg->i, 0)
incnmasterSet(M, i) == [M EXCEPT !.nmaster = Max(M.nmaster + i, 0)]

incnmaster(W, i) ==
    arrangeSelmon([W EXCEPT !.mons[W.selmon] = incnmasterSet(W.mons[W.selmon], i)])

\* The master fraction is a float in the source; here it is a number of
\* hundredths, and so is the argument of setmfact (1.0 is 100).

\* setmfact with the two readings of the argument exchanged: below 1.0 the
\* fraction itself, from 1.0 on a difference
setmfactExchanged(M, f) == IF f < 100 THEN f ELSE M.mfact + (f - 100)

\* setmfact: f = arg->f < 1.0 ? arg->f + selmon->mfact : arg->f - 1.0
setmfactTarget(M, f) == IF f < 100 THEN f + M.mfact ELSE f - 100

\* setmfact without the test of the range
setmfactUnchecked(W, f) ==
    arrangeSelmon([W EXCEPT !.mons[W.selmon].mfact = f])

\* setmfact: if (f < 0.05 || f > 0.95) return; selmon->mfact = f;
\* arrange(selmon)
setmfactSet(W, f) ==
    IF f < 5 \/ f > 95 THEN W
    ELSE arrangeSelmon([W EXCEPT !.mons[W.selmon].mfact = f])

\* setmfact without the test of the layout
setmfactAnyLayout(W, f) ==
    setmfactSet(W, setmfactTarget(W.mons[W.selmon], f))

\* setmfact: nothing happens under a layout without an arrange function
setmfact(W, f) ==
    IF CurLayout(W.mons[W.selmon]).arrange = "none" THEN W
    ELSE setmfactSet(W, setmfactTarget(W.mons[W.selmon], f))

-----------------------------------------------------------------------------
(* The drags.  movemouse and resizemouse run a loop of their own on the    *)
(* events XMaskEvent hands them.  An event e is a record of its type, the  *)
(* window it names, the pointer position x, y and a detail: the value mask *)
(* of a configure request, the action of a client message, the argument of *)
(* the function a key is bound to.                                         *)

\* the locals of movemouse and resizemouse while their loop runs: which of
\* the two it is, the client c, where c was when the drag began (ocx, ocy),
\* and where the pointer was then (x, y; movemouse only); kind "none"
\* outside a drag
NoDrag == [kind |-> "none", c |-> 0, ocx |-> 0, ocy |-> 0, x |-> 0, y |-> 0]

\* what a configure request asks for, whatever its mask
RequestValues == [x |-> 5, y |-> 15, w |-> 40, h |-> 5, bw |-> 2]

\* what a window that asks to be mapped during a drag is like
MappedAttrs == [x |-> 10, y |-> 20, w |-> 30, h |-> 20, bw |-> 0]
MappedHint == [klass |-> <<"x">>, instance |-> <<"x">>, title |-> <<"t">>]

\* handler[ev.type](&ev): the table of the event loop.  A key is bound to
\* view with the event's detail as its argument; expose redraws a bar.
handler(W, e) ==
    CASE e.type = "ButtonPress" -> buttonpress(W, e.window, <<e.x, e.y>>)
      [] e.type = "ClientMessage" -> clientmessageState(W, e.window, e.detail)
      [] e.type = "ConfigureRequest" ->
             configurerequest(W, e.window, e.detail, RequestValues)
      [] e.type = "DestroyNotify" -> destroynotify(W, e.window)
      [] e.type = "EnterNotify" -> enternotify(W, e.window, TRUE, <<e.x, e.y>>)
      [] e.type = "KeyPress" -> view(W, e.detail)
      [] e.type = "MapRequest" ->
             maprequest(W, e.window, FALSE, MappedAttrs, 0, MappedHint,
                        FALSE, FALSE)
      [] e.type = "UnmapNotify" -> unmapnotify(W, e.window, FALSE)
      [] OTHER -> W

\* XMaskEvent with MOUSEMASK | ExposureMask | SubstructureRedirectMask: the
\* types of the events it returns; the others stay in the queue
XMaskEvent(type) ==
    type \in {"ButtonPress", "ButtonRelease", "MotionNotify", "Expose",
              "ConfigureRequest", "MapRequest"}

\* movemouse and resizemouse return before the grab
mouseReturns(W) ==
    Sel(W) = 0 \/ W.heap[Sel(W)].isfullscreen

\* movemouse up to its loop: the locals it enters the loop with, ptr being
\* what getrootptr says; grabbed says that XGrabPointer succeeds
movemouseBegin(W, grabbed, ptr) ==
    IF mouseReturns(W) \/ ~grabbed THEN NoDrag
    ELSE [kind |-> "move", c |-> Sel(W),
          ocx |-> W.heap[Sel(W)].x, ocy |-> W.heap[Sel(W)].y,
          x |-> ptr[1], y |-> ptr[2]]

\* resizemouse up to its loop
resizemouseBegin(W, grabbed) ==
    IF mouseReturns(W) \/ ~grabbed THEN NoDrag
    ELSE [kind |-> "resize", c |-> Sel(W),
          ocx |-> W.heap[Sel(W)].x, ocy |-> W.heap[Sel(W)].y,
          x |-> 0, y |-> 0]

\* the loop of movemouse that hands every event to the table
movemouseEventAll(W, D, e) ==
    IF e.type = "MotionNotify"
    THEN movemouseMotion(W, D.c, D.ocx, D.ocy, <<e.x - D.x, e.y - D.y>>)
    ELSE handler(W, e)

\* the loop of movemouse: the switch on the type of the event
movemouseEvent(W, D, e) ==
    IF e.type \in {"ConfigureRequest", "Expose", "MapRequest"}
    THEN handler(W, e)
    ELSE IF e.type = "MotionNotify"
    THEN movemouseMotion(W, D.c, D.ocx, D.ocy, <<e.x - D.x, e.y - D.y>>)
    ELSE W

\* resizemouse: nw (nh likewise) when the pointer is at p
resizemouseSize(p, oc, bw) == Max(p - oc - 2 * bw + 1, 1)

\* resizemouse: the size nw, nh, taken from the origin of the window area of
\* c's monitor, lies in the window area of the selected monitor
resizemouseInside(M, S, nw, nh) ==
    /\ M.wx + nw >= S.wx
    /\ M.wx + nw <= S.wx + S.ww
    /\ M.wy + nh >= S.wy
    /\ M.wy + nh <= S.wy + S.wh

\* resizemouse: a tiled client resized by more than snap becomes floating
resizemouseFloat(W, c, nw, nh) ==
    IF /\ resizemouseInside(MonOf(W, c), W.mons[W.selmon], nw, nh)
       /\ ~W.heap[c].isfloating
       /\ CurLayout(W.mons[W.selmon]).arrange # "none"
       /\ (abs(nw - W.heap[c].w) > snap \/ abs(nh - W.heap[c].h) > snap)
    THEN togglefloating(W) ELSE W

\* resizemouse: the resize that follows
resizemouseResize(W, c, nw, nh) ==
    IF CurLayout(W.mons[W.selmon]).arrange = "none" \/ W.heap[c].isfloating
    THEN resize(W, c, W.heap[c].x, W.heap[c].y, nw, nh, TRUE)
    ELSE W

\* resizemouse, one MotionNotify of its loop with the pointer at x, y
resizemouseMotion(W, c, ocx, ocy, x, y) ==
    resizemouseResize(
        resizemouseFloat(W, c, resizemouseSize(x, ocx, W.heap[c].bw),
                         resizemouseSize(y, ocy, W.heap[c].bw)),
        c, resizemouseSize(x, ocx, W.heap[c].bw),
        resizemouseSize(y, ocy, W.heap[c].bw))

\* the loop of resizemouse: the switch on the type of the event
resizemouseEvent(W, D, e) ==
    IF e.type \in {"ConfigureRequest", "Expose", "MapRequest"}
    THEN handler(W, e)
    ELSE IF e.type = "MotionNotify"
    THEN resizemouseMotion(W, D.c, D.ocx, D.ocy, e.x, e.y)
    ELSE W

\* the switch of the loop that runs
mouseEvent(W, D, e) ==
    IF D.kind = "move" THEN movemouseEvent(W, D, e)
    ELSE resizemouseEvent(W, D, e)

\* while (ev.type != ButtonRelease)
mouseLoops(e) == e.type # "ButtonRelease"

\* one turn of the loop of a drag on the event e, and what follows the loop
\* when it ends (the same statements in movemouse and resizemouse): the
\* state and the locals it leaves
mouseTurn(W, D, e) ==
    IF mouseLoops(e)
    THEN [W |-> mouseEvent(W, D, e), D |-> D]
    ELSE [W |-> movemouseRelease(mouseEvent(W, D, e), D.c), D |-> NoDrag]
-----------------------------------------------------------------------------
(* What the environment may send *)

\* the screens: the size of the root window and what Xinerama reports
ScreenA == [x |-> 0, y |-> 0, w |-> 100, h |-> 60]
ScreenB == [x |-> 100, y |-> 0, w |-> 100, h |-> 60]

OneScreen == [sw |-> 100, sh |-> 60, info |-> <<ScreenA>>]
TwoScreens == [sw |-> 200, sh |-> 60, info |-> <<ScreenA, ScreenB>>]
MirroredScreens == [sw |-> 200, sh |-> 60, info |-> <<ScreenA, ScreenA>>]

Pointers == { <<50, 30>>, <<150, 30>> }

\* the attributes of a window that asks to be mapped
WinAttrs == { [x |-> 10, y |-> 20, w |-> 30, h |-> 20, bw |-> 0] }

\* class, instance and title
PlainHint == [klass |-> <<"x">>, instance |-> <<"x">>, title |-> <<"t">>]
FloatHint == [klass |-> <<"G", "i", "m">>, instance |-> <<"g">>, title |-> <<"t">>]
MonHint == [klass |-> <<"F", "x">>, instance |-> <<"f">>, title |-> <<"m", "1">>]
FooHint == [klass |-> <<"x", "F", "o", "o">>, instance |-> <<"x">>, title |-> <<"t">>]
FxHint == [klass |-> <<"F", "x">>, instance |-> <<"f">>, title |-> <<"t">>]

\* a screen so low that two clients in one column get less than bh each
ShortScreen == [sw |-> 100, sh |-> 32, info |-> <<[x |-> 0, y |-> 0, w |-> 100, h |-> 32]>>]

\* the arguments of setmfact, in hundredths: two differences, and a
\* fraction (from 100 on)
MFactArgs == { -5, 50, 110 }

\* the arguments of incnmaster
NMasterArgs == { -1, 1 }

\* the arguments of view, toggleview, tag and toggletag: tag 2, a bit outside
\* TAGMASK alone and with tag 1, and the 31 low bits of ~0 (TAGMASK has no
\* higher bit: the source asserts that there are fewer than 32 tags)
AllOnes == (2 ^ 30 - 1) * 2 + 1
TagArgs == { 2, 2 ^ NTags, 2 ^ NTags + 1, AllOnes }

\* where the pointer is when an event names window w: it decides the monitor
\* only for the root window (wintomon)
PointersFor(w) == IF w = 0 THEN Pointers ELSE { <<50, 30>> }

\* what the pointer does during a drag: nothing, a few pixels, or a screen's
\* width to the right or to the left
Drags == { << >>, << <<2, 1>> >>, << <<100, 0>> >>, << <<60, 0>>, <<-100, 0>> >> }

\* configure requests
ConfMasks == { CWX + CWY, CWWidth + CWHeight, CWX + CWY + CWWidth + CWHeight,
               CWBorderWidth, CWBorderWidth + CWWidth }
ConfValues == { [x |-> 5, y |-> 15, w |-> 40, h |-> 5, bw |-> 2] }

-----------------------------------------------------------------------------
(* The state machine *)

Cur == [mons |-> mons, selmon |-> selmon, heap |-> heap, root |-> root,
        sw |-> sw, sh |-> sh, conf |-> 0]

\* the event loop handles the next event: no handler has dereferenced a null
\* pointer, no drag holds the loop, and the behaviour is within the number of
\* events explored
Running == ~crashed /\ steps < MaxSteps /\ drag.kind = "none"

\* a handler returns and leaves the state W
Commit(W) ==
    /\ mons' = W.mons
    /\ selmon' = W.selmon
    /\ heap' = W.heap
    /\ root' = W.root
    /\ sw' = W.sw
    /\ sh' = W.sh
    /\ crashed' = FALSE
    /\ steps' = steps + 1
    /\ drag' = drag

\* a handler dereferences a null pointer
Crash ==
    /\ crashed' = TRUE
    /\ steps' = steps + 1
    /\ UNCHANGED <<mons, selmon, heap, root, sw, sh, drag>>

\* setup(): updategeom on the empty monitor list, then focus(nullptr)
setup(scr, ptr) ==
    focus(updategeom([mons |-> << >>, selmon |-> 0,
                      heap |-> [w \in Windows |-> NoClient],
                      root |-> [clientlist |-> << >>, active |-> 0],
                      sw |-> scr.sw, sh |-> scr.sh, conf |-> 0],
                     scr.info, ptr).W, 0)

\* the program starts its event loop in the state W
Started(W) ==
    /\ mons = W.mons
    /\ selmon = W.selmon
    /\ heap = W.heap
    /\ root = W.root
    /\ sw = W.sw
    /\ sh = W.sh
    /\ crashed = FALSE
    /\ steps = 0
    /\ drag = NoDrag

\* the program starts with one screen or with two
Init ==
    \E scr \in {OneScreen, TwoScreens}, ptr \in Pointers :
        Started(setup(scr, ptr))

MapRequestOf(hints, states, types) ==
    \E w \in Windows :
        /\ Running
        /\ \/ Commit(maprequest(Cur, w, TRUE, CHOOSE a \in WinAttrs : TRUE, 0,
                                PlainHint, FALSE, FALSE))
           \/ \E wa \in WinAttrs, trans \in 0 .. MaxClients, hint \in hints,
                 fs \in states, dialog \in types :
                  /\ trans # w
                  /\ trans # 0 => hint = PlainHint
                  /\ Commit(maprequest(Cur, w, FALSE, wa, trans, hint, fs, dialog))

DestroyNotify ==
    \E w \in Windows :
        /\ Running
        /\ Commit(destroynotify(Cur, w))

UnmapNotify ==
    \E w \in Windows, send_event \in BOOLEAN :
        /\ Running
        /\ Commit(unmapnotify(Cur, w, send_event))

ConfigureRequest ==
    \E w \in Windows, mask \in ConfMasks, e \in ConfValues :
        /\ Running
        /\ Commit(configurerequest(Cur, w, mask, e))

ClientMessage ==
    \E w \in Windows, action \in 0 .. 2 :
        /\ Running
        /\ Commit(clientmessageState(Cur, w, action))

EnterNotify ==
    \E w \in 0 .. MaxClients, normal \in BOOLEAN :
      \E ptr \in PointersFor(w) :
        /\ Running
        /\ Commit(enternotify(Cur, w, normal, ptr))

ButtonPress ==
    \E w \in 0 .. MaxClients :
      \E ptr \in PointersFor(w) :
        /\ Running
        /\ Commit(buttonpress(Cur, w, ptr))

View ==
    \E ui \in TagArgs :
        /\ Running
        /\ Commit(view(Cur, ui))

ToggleView ==
    \E ui \in TagArgs :
        /\ Running
        /\ Commit(toggleview(Cur, ui))

Tag ==
    \E ui \in TagArgs :
        /\ Running
        /\ Commit(tag(Cur, ui))

ToggleTag ==
    \E ui \in TagArgs :
        /\ Running
        /\ Commit(toggletag(Cur, ui))

TagMon ==
    \E dir \in {-1, 1} :
        /\ Running
        /\ Commit(tagmon(Cur, dir))

FocusMon ==
    \E dir \in {-1, 1} :
        /\ Running
        /\ Commit(focusmon(Cur, dir))

FocusStack ==
    \E dir \in {-1, 1} :
        /\ Running
        /\ Commit(focusstack(Cur, dir))

ToggleFloating ==
    /\ Running
    /\ Commit(togglefloating(Cur))

SetLayout ==
    \E v \in 0 .. Len(layouts) :
        /\ Running
        /\ Commit(setlayout(Cur, v))

\* the source lets nmaster grow without limit; the model stops at one more
\* than the number of windows, which tile cannot tell from any larger number
IncNMaster ==
    \E i \in NMasterArgs :
        /\ Running
        /\ Cur.mons[selmon].nmaster + i <= MaxClients + 1
        /\ Commit(incnmaster(Cur, i))

SetMFact ==
    \E f \in MFactArgs :
        /\ Running
        /\ Commit(setmfact(Cur, f))

MoveMouse ==
    \E motions \in Drags :
        /\ Running
        /\ Commit(movemouse(Cur, motions))

Zoom ==
    /\ Running
    /\ IF zoomCrashes(Cur) THEN Crash ELSE Commit(zoom(Cur))

\* The clients, their lists, their tags and the focus, on one or two
\* monitors: every handler that attaches, detaches, tags, focuses or moves a
\* client, and the monitor reconciliation.
MapRequest == MapRequestOf({PlainHint, MonHint}, {FALSE}, {FALSE})

\* the root window changes its size with the screens; or the outputs are
\* mirrored, the root window keeps the size it has with two screens and one
\* rectangle is reported twice
ConfigureNotify ==
    \E scr \in {OneScreen, TwoScreens}, ptr \in Pointers :
        /\ Running
        /\ Commit(configurenotify(Cur, scr, ptr))

ConfigureNotifyMirrored ==
    \E ptr \in Pointers :
        /\ Running
        /\ Commit(configurenotify(Cur, MirroredScreens, ptr))

Next ==
    \/ ConfigureNotifyMirrored
    \/ MapRequest
    \/ DestroyNotify
    \/ UnmapNotify
    \/ ConfigureNotify
    \/ EnterNotify
    \/ ButtonPress
    \/ View
    \/ ToggleView
    \/ Tag
    \/ ToggleTag
    \/ TagMon
    \/ FocusMon
    \/ FocusStack
    \/ MoveMouse
    \/ Zoom

Spec == Init /\ [][Next]_vars

\* The geometry of the clients: windows that ask to be floating or
\* fullscreen, configure requests, the fullscreen state, the layouts.
MapRequestState == MapRequestOf({PlainHint, FloatHint}, BOOLEAN, BOOLEAN)

NextGeom ==
    \/ MapRequestState
    \/ ConfigureRequest
    \/ ClientMessage
    \/ ToggleFloating
    \/ SetLayout
    \/ View
    \/ FocusMon
    \/ FocusStack

SpecGeom == Init /\ [][NextGeom]_vars

\* The layout of the tiled clients: the master fraction, the number of
\* masters, the layouts, floating and hidden clients, on two screens or on
\* a low one.
InitLayout ==
    \E scr \in {TwoScreens, ShortScreen}, ptr \in Pointers :
        Started(setup(scr, ptr))

\* the windows are alike: the next one to ask for its mapping is the first
\* that is not managed; it matches no rule, or the rule that makes it
\* floating on a tag that is not shown
MapRequestNext ==
    \E w \in Windows, hint \in {PlainHint, FooHint} :
        /\ Running
        /\ ~heap[w].managed
        /\ \A v \in 1 .. w - 1 : heap[v].managed
        /\ Commit(maprequest(Cur, w, FALSE, CHOOSE a \in WinAttrs : TRUE, 0,
                             hint, FALSE, FALSE))

NextLayout ==
    \/ MapRequestNext
    \/ SetMFact
    \/ IncNMaster
    \/ SetLayout
    \/ ToggleFloating

SpecLayout == InitLayout /\ [][NextLayout]_vars

\* The clients come and go: windows are mapped, unmapped and destroyed, the
\* selected client changes its tags or its monitor, the selection, the view
\* and the selected monitor change, a screen comes or goes.
NextClients ==
    \/ MapRequestNext
    \/ DestroyNotify
    \/ UnmapNotify
    \/ ConfigureNotify
    \/ Tag
    \/ View
    \/ TagMon
    \/ FocusMon
    \/ FocusStack

SpecClients == Init /\ [][NextClients]_vars

\* The drags: a client is moved or resized with the pointer while windows
\* ask to be mapped and configured; the clients are tiled, floating or
\* fullscreen, the layout arranges them or not.

\* a handler or a turn of a drag's loop leaves the state W and the locals D
\* of the drag
Handled(W, D) ==
    /\ mons' = W.mons
    /\ selmon' = W.selmon
    /\ heap' = W.heap
    /\ root' = W.root
    /\ sw' = W.sw
    /\ sh' = W.sh
    /\ crashed' = FALSE
    /\ steps' = steps + 1
    /\ drag' = D

Event(type, window, detail, x, y) ==
    [type |-> type, window |-> window, detail |-> detail, x |-> x, y |-> y]

\* where the pointer is in the motion events of a drag: near the origin of
\* the first screen, on the second screen, and at the lower right corner of a
\* client that fills the window area of the first screen
MotionPoints == { <<2, 11>>, <<120, 10>>, <<99, 59>> }

\* the button that starts a move is pressed with the pointer at the origin
\* of the selected client
MoveMouseBegin ==
    \E grabbed \in BOOLEAN :
        /\ Running
        /\ Handled(Cur,
                   movemouseBegin(Cur, grabbed,
                       IF Sel(Cur) = 0 THEN <<0, 0>>
                       ELSE <<heap[Sel(Cur)].x, heap[Sel(Cur)].y>>))

ResizeMouseBegin ==
    \E grabbed \in BOOLEAN :
        /\ Running
        /\ Handled(Cur, resizemouseBegin(Cur, grabbed))

\* a drag holds the event loop
Dragging == ~crashed /\ drag.kind # "none"

\* XMaskEvent returns the event e to the loop of the drag
MouseTurn(e) ==
    /\ XMaskEvent(e.type)
    /\ e.type # "ButtonRelease" => steps < MaxSteps
    /\ Handled(mouseTurn(Cur, drag, e).W, mouseTurn(Cur, drag, e).D)

MouseMotion ==
    \E p \in MotionPoints :
        /\ Dragging
        /\ MouseTurn(Event("MotionNotify", 0, 0, p[1], p[2]))

MouseMapRequest ==
    \E w \in Windows :
        /\ Dragging
        /\ ~heap[w].managed
        /\ \A v \in 1 .. w - 1 : heap[v].managed
        /\ MouseTurn(Event("MapRequest", w, 0, 0, 0))

MouseConfigureRequest ==
    \E w \in Windows :
        /\ Dragging
        /\ MouseTurn(Event("ConfigureRequest", w,
                            CWX + CWY + CWWidth + CWHeight, 0, 0))

\* events the loop of a drag receives and passes over
MouseOther ==
    \E type \in {"Expose", "ButtonPress"} :
        /\ Dragging
        /\ MouseTurn(Event(type, 0, 0, 0, 0))

MouseRelease ==
    /\ Dragging
    /\ MouseTurn(Event("ButtonRelease", 0, 0, 0, 0))

NextDrag ==
    \/ MapRequestNext
    \/ ToggleFloating
    \/ SetLayout
    \/ ClientMessage
    \/ MoveMouseBegin
    \/ ResizeMouseBegin
    \/ MouseMotion
    \/ MouseMapRequest
    \/ MouseConfigureRequest
    \/ MouseOther
    \/ MouseRelease

SpecDrag == Init /\ [][NextDrag]_vars

\* The fullscreen state: tiled and floating windows enter and leave it by
\* client messages, are configured, and change their monitor; screens come
\* and go.
NextFullscreen ==
    \/ MapRequestNext
    \/ ToggleFloating
    \/ ClientMessage
    \/ ConfigureRequest
    \/ ConfigureNotify
    \/ TagMon

SpecFullscreen == Init /\ [][NextFullscreen]_vars

\* The tags: windows come under no rule, one rule or several, the views
\* change, the selected client is sent to the other monitor.
FooMonHint == [klass |-> <<"F", "o", "o">>, instance |-> <<"x">>, title |-> <<"m", "1">>]

MapRequestRuled ==
    \E w \in Windows, hint \in {PlainHint, MonHint, FooMonHint} :
        /\ Running
        /\ ~heap[w].managed
        /\ \A v \in 1 .. w - 1 : heap[v].managed
        /\ Commit(maprequest(Cur, w, FALSE, CHOOSE a \in WinAttrs : TRUE, 0,
                             hint, FALSE, FALSE))

NextTags ==
    \/ MapRequestRuled
    \/ View
    \/ ToggleView
    \/ TagMon
    \/ FocusMon

SpecTags == Init /\ [][NextTags]_vars

\* The focus: clients ask for attention and say whether they take the input
\* focus, the selection moves, windows go away.
WMHints ==
    { [given |-> FALSE, urgency |-> FALSE, input |-> "unset"] }
        \cup [given : {TRUE}, urgency : BOOLEAN, input : {"unset", "yes", "no"}]

ClientMessageActive ==
    \E w \in Windows :
        /\ Running
        /\ Commit(clientmessageActive(Cur, w))

PropertyNotify ==
    \E w \in Windows, wmh \in WMHints :
        /\ Running
        /\ Commit(propertynotifyHints(Cur, w, wmh))

NextFocus ==
    \/ MapRequestNext
    \/ ClientMessageActive
    \/ PropertyNotify
    \/ DestroyNotify
    \/ FocusStack
    \/ FocusMon
    \/ TagMon
    \/ View

SpecFocus == Init /\ [][NextFocus]_vars

-----------------------------------------------------------------------------
(* What the properties speak about *)

\* the clients that are managed, and those a monitor owns
Managed == { c \in Windows : heap[c].managed }
OwnedBy(W, m) == { c \in Windows : W.heap[c].managed /\ W.heap[c].mon = m }

\* how often c occurs in the sequence l
Occurrences(l, c) == Cardinality({ i \in 1 .. Len(l) : l[i] = c })

\* the arguments view, toggleview, tag and toggletag are asked about: every
\* tag set, with and without the lowest bit outside TAGMASK, and ~0
TagProbes == (0 .. 2 * TAGMASK + 1) \cup { AllOnes }

-----------------------------------------------------------------------------
(* C1..C4: invariants of the client and monitor lists *)

\* C1: every managed client is owned by exactly one monitor of the monitor
\* list, occurs exactly once in that monitor's client list and once in its
\* focus-history list and in no list of another monitor, and both lists of a
\* monitor are as long as the number of clients the monitor owns.
C1_ListsConsistent ==
    /\ \A c \in Managed : heap[c].mon \in 1 .. Len(mons)
    /\ \A m \in 1 .. Len(mons) :
        /\ \A c \in Managed :
            /\ Occurrences(ClientList(Cur, m), c)
                  = IF heap[c].mon = m THEN 1 ELSE 0
            /\ Occurrences(StackList(Cur, m), c)
                  = IF heap[c].mon = m THEN 1 ELSE 0
        /\ Len(ClientList(Cur, m)) = Cardinality(OwnedBy(Cur, m))
        /\ Len(StackList(Cur, m)) = Cardinality(OwnedBy(Cur, m))

\* C1 witness: a monitor owns two clients that its two lists hold in
\* different orders, next to a second monitor
C1_Witness ==
    /\ Len(mons) = 2
    /\ \E m \in 1 .. 2 :
        /\ Cardinality(OwnedBy(Cur, m)) = 2
        /\ ClientList(Cur, m) # StackList(Cur, m)

\* C2: on every monitor, a selected client that is not none is the first
\* client of the focus-history list that the monitor's active tag set shows.
C2_SelIsFirstVisible ==
    \A m \in 1 .. Len(mons) :
        mons[m].sel # 0 => mons[m].sel = firstvisible(Cur, StackList(Cur, m))

\* C3: every managed client's tag mask is non-zero and has no bit outside
\* TAGMASK.
C3_TagsValid ==
    \A c \in Managed :
        /\ heap[c].tags # 0
        /\ And(heap[c].tags, TAGMASK) = heap[c].tags

\* C3 witness: a client with the tags the rules gave it, after the bit
\* outside TAGMASK was masked away, next to a client with the tags of its
\* monitor's view
C3_Witness ==
    \E c, d \in Managed :
        /\ heap[c].tags = TAGMASK
        /\ heap[d].tags = 1
        /\ heap[d].mon = heap[c].mon

\* C4: selmon refers to a monitor of the monitor list.
C4_SelmonInList == selmon \in 1 .. Len(mons)

\* C4 witness: the root window is as wide as two screens and the
\* reconciliation has torn down the second monitor, whose client the first
\* one owns now
C4_Witness ==
    /\ Len(mons) = 1
    /\ sw = TwoScreens.sw
    /\ Managed # {}

-----------------------------------------------------------------------------
(* C5: focus *)

\* what focus(c) leaves, W being the state before and V the state after
focusDone(W, V, c) ==
    /\ V.selmon = W.heap[c].mon
    /\ V.mons[V.selmon].sel = c
    /\ V.mons[V.selmon].stack = c
    /\ (Sel(W) # 0 /\ Sel(W) # c) => V.heap[Sel(W)].border = "norm"

\* C5: after focus(c) on a managed client c that its monitor shows, the
\* selected monitor is c's monitor, that monitor's selected client is c, c
\* is the head of its focus-history list, and the client selected before
\* the call, if another one, has the border of the normal scheme.
C5_FocusSelects ==
    \A c \in Managed :
        ISVISIBLE(Cur, c) => focusDone(Cur, focus(Cur, c), c)

\* C5 witness: another client than c is selected and has the border of the
\* selected scheme, c is on another monitor and not the head of its list,
\* and focus(c) changes all of that
C5_Witness ==
    \E c \in Managed :
        /\ ISVISIBLE(Cur, c)
        /\ Sel(Cur) # 0
        /\ Sel(Cur) # c
        /\ heap[Sel(Cur)].border = "sel"
        /\ heap[c].mon # selmon
        /\ focus(Cur, c).heap[Sel(Cur)].border = "norm"
        /\ focus(Cur, c).selmon = heap[c].mon

-----------------------------------------------------------------------------
(* C6: monitor teardown *)

\* what the teardown of the second monitor leaves, W being the state before
\* and V the state after
teardownDone(W, V) ==
    /\ Len(V.mons) = 1
    /\ \A c \in Windows :
        W.heap[c].managed =>
            /\ V.heap[c].managed
            /\ V.heap[c].mon = 1
            /\ Occurrences(ClientList(V, 1), c) = 1
            /\ Occurrences(StackList(V, 1), c) = 1
            /\ V.heap[c].tags = W.heap[c].tags
    /\ W.selmon = 2 => V.selmon = 1

\* C6: with two monitors that both own clients, a configure notify after
\* which the second monitor's rectangle is no longer reported (one screen
\* is left, or both outputs show the same rectangle) leaves every client
\* owned by the first monitor, once in each of its two lists and with the
\* tags it had, and leaves the first monitor selected if the second one was.
C6_TeardownKeepsClients ==
    \A scr \in {OneScreen, MirroredScreens}, ptr \in Pointers :
        (Len(mons) = 2 /\ OwnedBy(Cur, 1) # {} /\ OwnedBy(Cur, 2) # {})
            => teardownDone(Cur, configurenotify(Cur, scr, ptr))

\* C6 witness: the second monitor is selected, shows another tag set than
\* the first and owns a client with that tag set, which the teardown hands
\* to the first monitor
C6_Witness ==
    /\ Len(mons) = 2
    /\ selmon = 2
    /\ OwnedBy(Cur, 1) # {}
    /\ \E c \in OwnedBy(Cur, 2) :
        /\ heap[c].tags # ActiveTags(mons[1])
        /\ configurenotify(Cur, OneScreen, <<50, 30>>).heap[c].mon = 1
        /\ configurenotify(Cur, OneScreen, <<50, 30>>).heap[c].tags
              = heap[c].tags

-----------------------------------------------------------------------------
(* C7: configure requests of tiled clients *)

\* the handler, which left V from W, has changed nothing of c's geometry
\* and has sent one synthetic ConfigureNotify
requestIgnored(W, V, c) ==
    /\ V.heap[c].x = W.heap[c].x
    /\ V.heap[c].y = W.heap[c].y
    /\ V.heap[c].w = W.heap[c].w
    /\ V.heap[c].h = W.heap[c].h
    /\ V.heap[c].bw = W.heap[c].bw
    /\ V.conf = 1

\* C7: a configure request, whatever its value mask, for a managed client
\* that is not floating and whose monitor's layout has an arrange function
\* changes none of x, y, w, h and the border width of the client and sends
\* exactly one synthetic ConfigureNotify.
C7_TiledRequestAcked ==
    \A c \in Managed, mask \in ConfMasks, e \in ConfValues :
        (~heap[c].isfloating /\ CurLayout(mons[heap[c].mon]).arrange # "none")
            => requestIgnored(Cur, configurerequest(Cur, c, mask, e), c)

-----------------------------------------------------------------------------
(* C8: fullscreen round trip *)

\* setfullscreen(c, 1) immediately followed by setfullscreen(c, 0)
roundtrip(W, c) == setfullscreen(setfullscreen(W, c, TRUE), c, FALSE)

\* the round trip, which left V from W, has restored the client c
roundtripRestores(W, V, c) ==
    /\ V.heap[c].x = W.heap[c].x
    /\ V.heap[c].y = W.heap[c].y
    /\ V.heap[c].w = W.heap[c].w
    /\ V.heap[c].h = W.heap[c].h
    /\ V.heap[c].bw = W.heap[c].bw
    /\ V.heap[c].isfloating
    /\ ~V.heap[c].isfullscreen

\* applysizehints, asked about the geometry c has, changes nothing
sizeAccepted(W, c) ==
    applysizehints(W, c, W.heap[c].x, W.heap[c].y, W.heap[c].w, W.heap[c].h,
                   FALSE)
        = [x |-> W.heap[c].x, y |-> W.heap[c].y,
           w |-> W.heap[c].w, h |-> W.heap[c].h]

\* C8 as claimed: for every floating client that is not fullscreen,
\* setfullscreen(c, 1) followed by setfullscreen(c, 0) leaves the geometry,
\* the border width and the floating flag as they were and the client not
\* fullscreen.
C8_RoundTripAny ==
    \A c \in Managed :
        (heap[c].isfloating /\ ~heap[c].isfullscreen)
            => roundtripRestores(Cur, roundtrip(Cur, c), c)

\* C8 as amended: the same for every such client that is hidden or has a
\* geometry that applysizehints leaves as it is.
C8_RoundTripAccepted ==
    \A c \in Managed :
        (/\ heap[c].isfloating
         /\ ~heap[c].isfullscreen
         /\ (~ISVISIBLE(Cur, c) \/ sizeAccepted(Cur, c)))
            => roundtripRestores(Cur, roundtrip(Cur, c), c)

\* C8 witness: a visible floating client with a border and a geometry a
\* configure request gave it, which fills the monitor when fullscreen and is
\* restored by the round trip
C8_Witness ==
    \E c \in Managed :
        /\ heap[c].isfloating
        /\ ~heap[c].isfullscreen
        /\ ISVISIBLE(Cur, c)
        /\ sizeAccepted(Cur, c)
        /\ heap[c].bw = borderpx
        /\ heap[c].w = 40
        /\ setfullscreen(Cur, c, TRUE).heap[c].w = mons[heap[c].mon].mw
        /\ setfullscreen(Cur, c, TRUE).heap[c].bw = 0
        /\ roundtripRestores(Cur, roundtrip(Cur, c), c)

-----------------------------------------------------------------------------
(* C9, C10: arguments without a tag *)

\* from W to V no client's tags, no monitor's selected client and neither
\* list of any monitor has changed
taggingUnchanged(W, V) ==
    /\ \A c \in Windows : V.heap[c].tags = W.heap[c].tags
    /\ Len(V.mons) = Len(W.mons)
    /\ \A m \in 1 .. Len(W.mons) :
        /\ V.mons[m].sel = W.mons[m].sel
        /\ ClientList(V, m) = ClientList(W, m)
        /\ StackList(V, m) = StackList(W, m)

\* C9: toggletag with an argument that would leave the selected client
\* without a tag, and tag with an argument that has no bit of TAGMASK, change
\* no client's tags, no monitor's selected client and neither list of any
\* monitor.
C9_EmptyTagsIgnored ==
    \A ui \in TagProbes :
        /\ (Sel(Cur) # 0 /\ Xor(heap[Sel(Cur)].tags, And(ui, TAGMASK)) = 0)
              => taggingUnchanged(Cur, toggletag(Cur, ui))
        /\ And(ui, TAGMASK) = 0 => taggingUnchanged(Cur, tag(Cur, ui))

\* C9 witness: the selected client has another tag set than its monitor's
\* first; toggling that tag set is ignored, toggling one more tag is not
C9_Witness ==
    /\ Sel(Cur) # 0
    /\ heap[Sel(Cur)].tags = 2
    /\ Cardinality(OwnedBy(Cur, selmon)) = 2
    /\ toggletag(Cur, 2 + 2 ^ NTags) = Cur
    /\ toggletag(Cur, 1).heap[Sel(Cur)].tags = 3
    /\ tag(Cur, 2 ^ NTags) = Cur
    /\ tag(Cur, 1).heap[Sel(Cur)].tags = 1

\* from W to V the selected monitor's selector bit, its two tag slots, its
\* active tag set and its selected client have not changed
viewUnchanged(W, V) ==
    /\ V.mons[W.selmon].seltags = W.mons[W.selmon].seltags
    /\ V.mons[W.selmon].tagset = W.mons[W.selmon].tagset
    /\ ActiveTags(V.mons[W.selmon]) = ActiveTags(W.mons[W.selmon])
    /\ V.mons[W.selmon].sel = W.mons[W.selmon].sel

\* C10 as claimed: view with an argument that has no bit of TAGMASK leaves
\* the selected monitor's selector bit, both tag slots, the active tag set
\* and the selected client as they were.
C10_ViewNothingIsNoop ==
    \A ui \in TagProbes :
        And(ui, TAGMASK) = 0 => viewUnchanged(Cur, view(Cur, ui))

\* from W to V the selected monitor's two tag slots are the same, its
\* selector bit has flipped, and its selected client is the first client of
\* the focus history that the other slot shows
viewSwapped(W, V) ==
    /\ V.selmon = W.selmon
    /\ V.mons[W.selmon].tagset = W.mons[W.selmon].tagset
    /\ V.mons[W.selmon].seltags = 1 - W.mons[W.selmon].seltags
    /\ ActiveTags(V.mons[W.selmon])
          = W.mons[W.selmon].tagset[2 - W.mons[W.selmon].seltags]
    /\ V.mons[W.selmon].sel = firstvisible(V, StackList(V, W.selmon))
    /\ \A c \in Windows : V.heap[c].tags = W.heap[c].tags

\* C10 as amended: view with an argument that has no bit of TAGMASK leaves
\* both tag slots of the selected monitor as they were and flips the
\* selector bit, so that the other slot becomes the active tag set; the
\* selected client becomes the first client of the focus history that this
\* tag set shows, or none.
C10_ViewNothingSwaps ==
    \A ui \in TagProbes :
        And(ui, TAGMASK) = 0 => viewSwapped(Cur, view(Cur, ui))

\* C10 witness: the two slots of the selected monitor differ and a client is
\* selected that the other slot does not show: view(0) deselects it
C10_Witness ==
    /\ mons[selmon].tagset[1] # mons[selmon].tagset[2]
    /\ Sel(Cur) # 0
    /\ And(heap[Sel(Cur)].tags, mons[selmon].tagset[2 - mons[selmon].seltags]) = 0
    /\ view(Cur, 0).mons[selmon].sel = 0
    /\ view(Cur, 2 ^ NTags).mons[selmon].seltags = 1 - mons[selmon].seltags


-----------------------------------------------------------------------------
(* The master fraction and the number of masters *)

\* arguments setmfact is asked about: those of the key bindings and of the
\* claim, and some on either side of 1.0 and of the two limits
MFactProbes == MFactArgs \cup { -50, -1, 0, 5, 95, 99, 100, 104, 105, 150, 196 }

\* the selected monitor uses a layout with an arrange function
arranging(W) == CurLayout(W.mons[W.selmon]).arrange # "none"

\* the master fraction of the selected monitor
selmfact(W) == W.mons[W.selmon].mfact

\* C11, as stated: under an arranging layout, setmfact(0.5) at mfact 0.6
\* sets 0.5 (the argument read as the fraction), setmfact(1.1) at mfact 0.5
\* sets 0.6 (the argument read as a difference of 0.1), and an argument
\* whose result is below 0.05 or above 0.95 leaves mfact unchanged.
C11_MFactAsStated ==
    arranging(Cur) =>
        /\ selmfact(Cur) = 60 => selmfact(setmfact(Cur, 50)) = 50
        /\ selmfact(Cur) = 50 => selmfact(setmfact(Cur, 110)) = 60
        /\ \A f \in MFactProbes :
               \/ setmfactTarget(Cur.mons[selmon], f) \in 5 .. 95
               \/ selmfact(setmfact(Cur, f)) = selmfact(Cur)

\* C11, amended: under an arranging layout an argument below 1.0 is a
\* difference added to mfact and an argument from 1.0 on is the fraction
\* plus 1.0.  So setmfact(0.5) at mfact 0.6 changes nothing (1.1 is out of
\* range), setmfact(1.1) at mfact 0.5 sets 0.1, and an argument whose result
\* is below 0.05 or above 0.95 leaves mfact, and all the state, unchanged;
\* any other argument sets mfact to its result.
C11_MFactReadings ==
    arranging(Cur) =>
        /\ selmfact(Cur) = 60 => setmfact(Cur, 50) = Cur
        /\ selmfact(Cur) = 50 => selmfact(setmfact(Cur, 110)) = 10
        /\ \A f \in MFactProbes :
               IF (IF f < 100 THEN f + selmfact(Cur) ELSE f - 100) \in 5 .. 95
               THEN selmfact(setmfact(Cur, f))
                        = (IF f < 100 THEN f + selmfact(Cur) ELSE f - 100)
               ELSE setmfact(Cur, f) = Cur

\* setmfact(1.1) is called at mfact 0.5 with a tiled client on the monitor
C11_Witness ==
    /\ arranging(Cur)
    /\ selmfact(Cur) = 50
    /\ nexttiled(Cur, ClientList(Cur, selmon)) # << >>
    /\ selmfact(setmfact(Cur, 110)) = 10

\* arguments incnmaster is asked about
NMasterProbes == NMasterArgs \cup { -3, -2, 0, 2 }

\* every monitor of W has nmaster and mfact in their ranges
inrange(W) ==
    \A m \in 1 .. Len(W.mons) :
        /\ W.mons[m].nmaster >= 0
        /\ W.mons[m].mfact \in 5 .. 95

\* C12: in every reachable state every monitor has nmaster >= 0 and
\* 0.05 <= mfact <= 0.95, whatever incnmaster and setmfact calls were made
\* and whichever is made next.
C12_NMasterMFactInRange ==
    /\ inrange(Cur)
    /\ \A i \in NMasterProbes : inrange(incnmaster(Cur, i))
    /\ \A f \in MFactProbes : inrange(setmfact(Cur, f))

\* nmaster was brought to 0 and mfact to a value near the lower limit, and
\* the next calls would take both beyond their limits
C12_Witness ==
    /\ Cur.mons[selmon].nmaster = 0
    /\ selmfact(Cur) = 10
    /\ arranging(Cur)
    /\ incnmaster(Cur, -2).mons[selmon].nmaster = 0
    /\ setmfact(Cur, 104) = Cur

-----------------------------------------------------------------------------
(* The tiled layout *)

\* the tiled clients of the monitor m, in the order of its client list
tiled(W, m) == nexttiled(W, ClientList(W, m))

\* the sum of the outer heights of the clients of l
RECURSIVE heights(_, _)
heights(V, l) ==
    IF l = << >> THEN 0 ELSE full_height(V.heap[l[1]]) + heights(V, Tail(l))

\* every client of l has the left edge x and the outer width width
column(V, l, x, width) ==
    \A i \in 1 .. Len(l) :
        V.heap[l[i]].x = x /\ full_width(V.heap[l[i]]) = width

\* the clients of l are one below the other from y on, none over another
stacked(V, l, y) ==
    /\ l # << >> => V.heap[l[1]].y = y
    /\ \A i \in 1 .. Len(l) - 1 :
           V.heap[l[i + 1]].y >= V.heap[l[i]].y + full_height(V.heap[l[i]])

\* the outer heights of the clients of l sum to height, each within one
\* pixel of an equal share
shared(V, l, height) ==
    /\ heights(V, l) = height
    /\ \A i \in 1 .. Len(l) :
           /\ Len(l) * full_height(V.heap[l[i]]) >= height - Len(l)
           /\ Len(l) * full_height(V.heap[l[i]]) <= height + Len(l)

\* one column over the window area of the monitor M
onecolumn(M, V, l) ==
    /\ column(V, l, M.wx, M.ww)
    /\ stacked(V, l, M.wy)
    /\ shared(V, l, M.wh)

\* every client of l has room in a cell of the size len (a width or a
\* height): within its border it gets at least bh, the least size
\* applysizehints leaves
roomy(W, l, len) ==
    \A i \in 1 .. Len(l) : len - 2 * W.heap[l[i]].bw >= bh

\* C13, as stated: with n >= 1 tiled clients and nmaster >= n, tile leaves
\* every one of them at x = wx with the outer width ww, stacked without
\* overlap from wy downward, the outer heights summing to wh and each within
\* one pixel of wh / n.
C13_OneColumnAlways ==
    \A m \in 1 .. Len(mons) :
        (tiled(Cur, m) # << >> /\ mons[m].nmaster >= Len(tiled(Cur, m)))
            => onecolumn(mons[m], tile(Cur, m), tiled(Cur, m))

\* C13, amended: the same, for monitors on which an equal share of the
\* window area, wh / n rounded down by ww, leaves every tiled client at
\* least the bar height within its border.
C13_OneColumnWithRoom ==
    \A m \in 1 .. Len(mons) :
        (/\ tiled(Cur, m) # << >>
         /\ mons[m].nmaster >= Len(tiled(Cur, m))
         /\ roomy(Cur, tiled(Cur, m), mons[m].ww)
         /\ roomy(Cur, tiled(Cur, m), mons[m].wh \div Len(tiled(Cur, m))))
            => onecolumn(mons[m], tile(Cur, m), tiled(Cur, m))

\* a monitor in the tiled layout shows two tiled clients with nmaster 2 or
\* more, and they have room
C13_Witness ==
    \E m \in 1 .. Len(mons) :
        /\ CurLayout(mons[m]).arrange = "tile"
        /\ Len(tiled(Cur, m)) >= 2
        /\ mons[m].nmaster >= Len(tiled(Cur, m))
        /\ roomy(Cur, tiled(Cur, m), mons[m].ww)
        /\ roomy(Cur, tiled(Cur, m), mons[m].wh \div Len(tiled(Cur, m)))
        /\ tile(Cur, m) = Cur
        /\ onecolumn(mons[m], Cur, tiled(Cur, m))

\* the width of the master column: ww * mfact, rounded down
masterwidth(M) == (M.ww * M.mfact) \div 100

\* every client of W that is not in l is the same in V
otherskept(W, V, l) ==
    \A c \in Windows :
        (\A i \in 1 .. Len(l) : l[i] # c) => V.heap[c] = W.heap[c]

\* two columns: the first nmaster clients of l left, the others right
twocolumns(M, W, V, l) ==
    /\ column(V, SubSeq(l, 1, M.nmaster), M.wx, masterwidth(M))
    /\ column(V, SubSeq(l, M.nmaster + 1, Len(l)),
              M.wx + masterwidth(M), M.ww - masterwidth(M))
    /\ otherskept(W, V, l)

-----------------------------------------------------------------------------
(* The rules *)

\* class, instance and title of the windows manage is asked about: no rule
\* matches, one rule with a tag, one rule without, two rules
RuleHints == { PlainHint, FooHint, FxHint, FloatHint, MonHint }

\* the rules that match hint
matching(hint) ==
    { i \in 1 .. Len(rules) :
        /\ strstr(hint.title, rules[i].title)
        /\ strstr(hint.klass, rules[i].klass)
        /\ strstr(hint.instance, rules[i].instance) }

\* the client w of V has what the only matching rule says, or with no
\* matching rule the active tags of the monitor selected in W and no
\* floating flag
ruled(W, V, w, hint) ==
    /\ \A i \in 1 .. Len(rules) :
           (/\ matching(hint) = {i}
            /\ rules[i].tags # 0
            /\ And(rules[i].tags, TAGMASK) = rules[i].tags)
               => /\ V.heap[w].tags = rules[i].tags
                  /\ V.heap[w].isfloating = rules[i].isfloating
    /\ matching(hint) = {}
           => /\ V.heap[w].tags = ActiveTags(W.mons[W.selmon])
              /\ ~V.heap[w].isfloating

\* C15, as stated: a newly managed window that is not transient, not of
\* fixed size and not a dialog gets the tags and the floating flag of the
\* only rule that matches it, when that rule has tags within TAGMASK; with
\* no matching rule it gets the active tags of the selected monitor and is
\* not floating.
C15_RulesDecide ==
    \A w \in Windows \ Managed, wa \in WinAttrs, hint \in RuleHints,
       fs \in BOOLEAN :
        ruled(Cur, manage(Cur, w, wa, 0, hint, fs, FALSE), w, hint)

\* C15, amended: the same, for a window that does not ask for the
\* fullscreen state either.
C15_RulesDecideUnlessFullscreen ==
    \A w \in Windows \ Managed, wa \in WinAttrs, hint \in RuleHints :
        ruled(Cur, manage(Cur, w, wa, 0, hint, FALSE, FALSE), w, hint)

\* the first window was managed under the only rule that matches it: it is
\* floating and on tag 2, which its monitor does not show
C15_Witness ==
    /\ steps = 1
    /\ matching(FooHint) = {4}
    /\ \E c \in Managed :
           /\ Cur.heap[c].tags = rules[4].tags
           /\ Cur.heap[c].isfloating
           /\ ActiveTags(MonOf(Cur, c)) # rules[4].tags

-----------------------------------------------------------------------------
(* The monitor reconciliation *)

\* one screen that is narrower than ScreenA: what is left when, of two
\* screens of different widths, the left one goes away
NarrowScreen == [sw |-> 80, sh |-> 60, info |-> <<[x |-> 0, y |-> 0, w |-> 80, h |-> 60]>>]

\* the screens updategeom is asked about
ScreenProbes == { OneScreen, TwoScreens, MirroredScreens, NarrowScreen }

\* the rectangle of the monitor M
rectangle(M) == [x |-> M.mx, y |-> M.my, w |-> M.mw, h |-> M.mh]

\* the monitors of V are the distinct rectangles of unique, in their order
reconciled(V, unique) ==
    /\ Len(V.mons) = Len(unique)
    /\ \A i \in 1 .. Len(V.mons) :
           i <= Len(unique) => rectangle(V.mons[i]) = unique[i]
    /\ \A i, j \in 1 .. Len(V.mons) :
           i # j => rectangle(V.mons[i]) # rectangle(V.mons[j])

\* C16: after every monitor reconciliation with the reported rectangles R
\* there are as many monitors as R has distinct rectangles, the i-th monitor
\* has the i-th distinct rectangle of R, and no two monitors have the same
\* rectangle, whether the number of monitors grows, stays or shrinks.
C16_MonitorsMatchRectangles ==
    \A scr \in ScreenProbes, ptr \in Pointers :
        reconciled(updategeom([Cur EXCEPT !.sw = scr.sw, !.sh = scr.sh],
                              scr.info, ptr).W,
                   uniquegeoms(scr.info, << >>))

\* a monitor was created or torn down, a monitor has another rectangle, or a
\* client has another owner in V than in W
reconcilechanged(W, V) ==
    \/ Len(V.mons) # Len(W.mons)
    \/ \E i \in 1 .. Len(W.mons) :
           i <= Len(V.mons) /\ rectangle(V.mons[i]) # rectangle(W.mons[i])
    \/ \E c \in Windows : V.heap[c].mon # W.heap[c].mon

\* C20: updategeom returns true if and only if it changed something: a
\* monitor was created, a monitor was torn down (even one that owned no
\* client), a monitor's rectangle changed or a client changed its owner.
C20_DirtyIffChanged ==
    \A scr \in ScreenProbes, ptr \in Pointers :
        updategeom([Cur EXCEPT !.sw = scr.sw, !.sh = scr.sh], scr.info, ptr).dirty
            <=> reconcilechanged(Cur,
                    updategeom([Cur EXCEPT !.sw = scr.sw, !.sh = scr.sh],
                               scr.info, ptr).W)

-----------------------------------------------------------------------------
(* The focus history without a client *)

\* the sequence l without c
RECURSIVE without(_, _)
without(l, c) ==
    IF l = << >> THEN << >>
    ELSE IF l[1] = c THEN without(Tail(l), c)
    ELSE <<l[1]>> \o without(Tail(l), c)

\* s is the first client of l that V shows, or 0 when V shows none of them
firstshown(V, l, s) ==
    IF \E i \in 1 .. Len(l) : ISVISIBLE(V, l[i])
    THEN \E i \in 1 .. Len(l) :
             /\ s = l[i]
             /\ ISVISIBLE(V, l[i])
             /\ \A j \in 1 .. i - 1 : ~ISVISIBLE(V, l[j])
    ELSE s = 0

\* V is W with c taken out of the focus history of its monitor m
detachstackDone(W, V, c, m) ==
    /\ StackList(V, m) = without(StackList(W, m), c)
    /\ IF W.mons[m].sel = c
       THEN firstshown(V, without(StackList(W, m), c), V.mons[m].sel)
       ELSE V.mons[m].sel = W.mons[m].sel

\* C17: detachstack(c) takes c out of the focus history of its monitor and
\* keeps the order of the others; if c was the monitor's selected client,
\* the selected client becomes the first of the remaining ones that the
\* monitor shows, or none; otherwise the selection stays.
C17_DetachstackReselects ==
    \A c \in Managed :
        detachstackDone(Cur, detachstack(Cur, c), c, heap[c].mon)

\* detachstack of the selected client of a monitor whose focus history has
\* another client, which becomes selected if the monitor shows it and is
\* passed over if not
C17_Witness ==
    \E c \in Managed :
        /\ mons[heap[c].mon].sel = c
        /\ Len(StackList(Cur, heap[c].mon)) >= 2
        /\ StackList(Cur, heap[c].mon)[1] = c
        /\ \/ detachstack(Cur, c).mons[heap[c].mon].sel
                  = StackList(Cur, heap[c].mon)[2]
           \/ /\ ~ISVISIBLE(Cur, StackList(Cur, heap[c].mon)[2])
              /\ detachstack(Cur, c).mons[heap[c].mon].sel = 0

-----------------------------------------------------------------------------
(* Map requests *)

\* the windows of W that are managed
managedin(W) == { c \in Windows : W.heap[c].managed }

\* A is W with the one new client w put before the others in both lists of
\* its monitor
inserted(W, A, w) ==
    /\ ClientList(A, A.heap[w].mon) = <<w>> \o ClientList(W, A.heap[w].mon)
    /\ StackList(A, A.heap[w].mon) = <<w>> \o StackList(W, A.heap[w].mon)

\* V is W with the one new client w, once in both lists of its monitor, and
\* selected if the selected monitor shows it
mapped(W, V, w) ==
    /\ managedin(V) = managedin(W) \cup {w}
    /\ \A m \in 1 .. Len(V.mons) :
           /\ Occurrences(ClientList(V, m), w)
                  = (IF m = V.heap[w].mon THEN 1 ELSE 0)
           /\ Occurrences(StackList(V, m), w)
                  = (IF m = V.heap[w].mon THEN 1 ELSE 0)
    /\ V.mons[V.heap[w].mon].clients = w
    /\ (V.heap[w].mon = V.selmon /\ ISVISIBLE(V, w)) => Sel(V) = w

\* what a map request for w must have done to W: A is the state when manage
\* has attached the client, V the state when the handler returns
maprequestDone(W, A, V, w, override_redirect) ==
    IF override_redirect \/ W.heap[w].managed
    THEN V = W
    ELSE inserted(W, A, w) /\ mapped(W, V, w)

-----------------------------------------------------------------------------
(* Destroy and unmap notifies *)

\* c is in no list of V, no monitor of V has it selected and wintoclient
\* does not find it
gone(V, c) ==
    /\ \A m \in 1 .. Len(V.mons) :
           /\ Occurrences(ClientList(V, m), c) = 0
           /\ Occurrences(StackList(V, m), c) = 0
           /\ V.mons[m].sel # c
    /\ wintoclient(V, c) = 0

\* the lists of V are the lists of W without c
orderkept(W, V, c) ==
    /\ Len(V.mons) = Len(W.mons)
    /\ \A m \in 1 .. Len(W.mons) :
           m <= Len(V.mons) =>
               /\ ClientList(V, m) = without(ClientList(W, m), c)
               /\ StackList(V, m) = without(StackList(W, m), c)

\* the lists of V are the lists of W without c, but for the client V has
\* selected on the selected monitor, which may have moved within the focus
\* history of that monitor
historykept(W, V, c) ==
    /\ Len(V.mons) = Len(W.mons)
    /\ \A m \in 1 .. Len(W.mons) :
           m <= Len(V.mons) =>
               /\ ClientList(V, m) = without(ClientList(W, m), c)
               /\ IF m = V.selmon
                  THEN without(StackList(V, m), Sel(V))
                           = without(without(StackList(W, m), c), Sel(V))
                  ELSE StackList(V, m) = without(StackList(W, m), c)

\* the monitor m of V is arranged: arrange(m) would change nothing
rearranged(V, m) == arrange([V EXCEPT !.conf = 0], m) = [V EXCEPT !.conf = 0]

-----------------------------------------------------------------------------
(* The fullscreen state *)

\* the client c of W has the rectangle of the monitor that owns it
fills(W, c) ==
    /\ W.heap[c].x = MonOf(W, c).mx
    /\ W.heap[c].y = MonOf(W, c).my
    /\ W.heap[c].w = MonOf(W, c).mw
    /\ W.heap[c].h = MonOf(W, c).mh

\* C21: in every reachable state, every fullscreen client is floating, has
\* border width 0 and has the full rectangle (mx, my, mw, mh) of the monitor
\* that owns it, also after configure requests for it, after it is sent to
\* another monitor, after a monitor is torn down and after a configure
\* notify for the root window.
C21_FullscreenFillsMonitor ==
    \A c \in Managed :
        heap[c].isfullscreen =>
            /\ heap[c].isfloating
            /\ heap[c].bw = 0
            /\ fills(Cur, c)

\* C22 asks about what happens to a client between setfullscreen(c, 1) and
\* setfullscreen(c, 0): a configure request for it, a configure notify
\* for the root window, an arrange of its monitor.  F is the state with c
\* fullscreen and the event handled.
leaves(F, c) == setfullscreen(F, c, FALSE)

\* C22: when a client leaves fullscreen, it gets the geometry and the border
\* width it had when it entered, whatever was handled while it was
\* fullscreen: a configure request for it, a configure notify for the root
\* window, an arrange of its monitor.  (Asked of the floating clients that an
\* immediate round trip leaves as they were.)
C22_LeaveRestoresEntry ==
    \A c \in Managed :
        (/\ heap[c].isfloating
         /\ ~heap[c].isfullscreen
         /\ roundtripRestores(Cur, roundtrip(Cur, c), c))
            => /\ \A mask \in ConfMasks :
                      roundtripRestores(Cur,
                          leaves(configurerequest(setfullscreen(Cur, c, TRUE),
                                                  c, mask, RequestValues), c),
                          c)
               /\ \A scr \in ScreenProbes, ptr \in Pointers :
                      roundtripRestores(Cur,
                          leaves(configurenotify(setfullscreen(Cur, c, TRUE),
                                                 scr, ptr), c),
                          c)
               /\ roundtripRestores(Cur,
                      leaves(arrange(setfullscreen(Cur, c, TRUE),
                                     heap[c].mon), c),
                      c)

\* C23: setfullscreen(c, 1) on a fullscreen client and setfullscreen(c, 0)
\* on a client that is not fullscreen change nothing (no geometry, saved
\* geometry, border width, saved border width, floating flag or saved
\* floating flag of any client); a _NET_WM_STATE client message that names
\* _FULLSCREEN leaves the client fullscreen with the action add, not
\* fullscreen with remove, and in the other state with toggle.
C23_FullscreenIdempotent ==
    \A c \in Managed :
        /\ heap[c].isfullscreen => setfullscreen(Cur, c, TRUE) = Cur
        /\ ~heap[c].isfullscreen => setfullscreen(Cur, c, FALSE) = Cur
        /\ clientmessageState(Cur, c, 1).heap[c].isfullscreen
        /\ ~clientmessageState(Cur, c, 0).heap[c].isfullscreen
        /\ clientmessageState(Cur, c, 2).heap[c].isfullscreen
               = ~heap[c].isfullscreen

\* a fullscreen client, which add leaves as it is and toggle takes out of
\* the fullscreen state, beside a client that is not fullscreen, which remove
\* leaves as it is and toggle makes fullscreen
C23_Witness ==
    \E c, d \in Managed :
        /\ heap[c].isfullscreen
        /\ ~heap[d].isfullscreen
        /\ clientmessageState(Cur, c, 1) = Cur
        /\ clientmessageState(Cur, d, 0) = Cur
        /\ ~clientmessageState(Cur, c, 2).heap[c].isfullscreen
        /\ clientmessageState(Cur, d, 2).heap[d].isfullscreen

-----------------------------------------------------------------------------
(* The border of the selected client *)

\* C24: after every handler, at most one client of all monitors has the
\* border colour of the selected scheme, and a client that has it is the
\* selected client of the selected monitor; so after a drag that ends with
\* the client on another monitor, and after focusmon, enter notify and
\* button press change the selected monitor.
C24_OneSelectedBorder ==
    \A c \in Managed :
        heap[c].border = "sel" => mons[selmon].sel = c

-----------------------------------------------------------------------------
(* The drags *)

\* where the pointer is in the motion events the loop of a drag is asked
\* about: also beyond the right edge of the first screen's window area
MotionProbes == MotionPoints \cup { <<4, 12>>, <<150, 59>>, <<60, 30>> }

Motion(p) == Event("MotionNotify", 0, 0, p[1], p[2])

\* the loop of the drag D finds that the motion e takes the client further
\* than snap from where it is (movemouse) or from the size it has
\* (resizemouse, which looks at sizes within the window area only)
pulled(W, D, e) ==
    IF D.kind = "move"
    THEN \/ abs(movemouseSnap(D.ocx + e.x - D.x, W.mons[W.selmon].wx,
                              W.mons[W.selmon].ww, full_width(W.heap[D.c]))
                - W.heap[D.c].x) > snap
         \/ abs(movemouseSnap(D.ocy + e.y - D.y, W.mons[W.selmon].wy,
                              W.mons[W.selmon].wh, full_height(W.heap[D.c]))
                - W.heap[D.c].y) > snap
    ELSE /\ resizemouseInside(MonOf(W, D.c), W.mons[W.selmon],
                              resizemouseSize(e.x, D.ocx, W.heap[D.c].bw),
                              resizemouseSize(e.y, D.ocy, W.heap[D.c].bw))
         /\ \/ abs(resizemouseSize(e.x, D.ocx, W.heap[D.c].bw)
                   - W.heap[D.c].w) > snap
            \/ abs(resizemouseSize(e.y, D.ocy, W.heap[D.c].bw)
                   - W.heap[D.c].h) > snap

\* the motion e of the drag D, which left V from W, has changed the floating
\* flag of no client but the dragged one, and has made the dragged client
\* floating if it was tiled and pulled
floatsDragged(W, V, D, e) ==
    /\ \A d \in managedin(W) \ {D.c} :
           V.heap[d].isfloating = W.heap[d].isfloating
    /\ (~W.heap[D.c].isfloating /\ arranging(W) /\ pulled(W, D, e))
           => V.heap[D.c].isfloating

\* C25: during a move or resize drag of the client c, whatever map requests
\* and configure requests the loop has handed on between the motions, a
\* motion changes the floating flag of no client but c, and a motion that
\* takes c, tiled, further than snap makes c floating, also when a map
\* request handled during the drag has made another client the selected one.
C25_DragFloatsOnlyDragged ==
    drag.kind # "none" =>
        \A p \in MotionProbes :
            floatsDragged(Cur, mouseEvent(Cur, drag, Motion(p)), drag,
                          Motion(p))

\* the position (movemouse) or the size (resizemouse) the motion e of the
\* drag D asks for, and what the dragged client has of it now
candidate(W, D, e) ==
    IF D.kind = "move"
    THEN << movemouseSnap(D.ocx + e.x - D.x, W.mons[W.selmon].wx,
                          W.mons[W.selmon].ww, full_width(W.heap[D.c])),
            movemouseSnap(D.ocy + e.y - D.y, W.mons[W.selmon].wy,
                          W.mons[W.selmon].wh, full_height(W.heap[D.c])) >>
    ELSE << resizemouseSize(e.x, D.ocx, W.heap[D.c].bw),
            resizemouseSize(e.y, D.ocy, W.heap[D.c].bw) >>

current(W, D) ==
    IF D.kind = "move" THEN << W.heap[D.c].x, W.heap[D.c].y >>
    ELSE << W.heap[D.c].w, W.heap[D.c].h >>

beyondsnap(W, D, e) ==
    \/ abs(candidate(W, D, e)[1] - current(W, D)[1]) > snap
    \/ abs(candidate(W, D, e)[2] - current(W, D)[2]) > snap

\* no drag begins while no client is selected or the selected one is
\* fullscreen
entered(W) ==
    mouseReturns(W) =>
        \A grabbed \in BOOLEAN :
            /\ movemouseBegin(W, grabbed, <<0, 0>>) = NoDrag
            /\ resizemouseBegin(W, grabbed) = NoDrag

\* the motion e of the drag D of a tiled client, which left V from W, has
\* made the client floating if it asks for more than snap, and has left its
\* floating flag and its geometry alone if not
pulledout(W, V, D, e) ==
    IF beyondsnap(W, D, e) THEN V.heap[D.c].isfloating
    ELSE /\ ~V.heap[D.c].isfloating
         /\ V.heap[D.c].x = W.heap[D.c].x /\ V.heap[D.c].y = W.heap[D.c].y
         /\ V.heap[D.c].w = W.heap[D.c].w /\ V.heap[D.c].h = W.heap[D.c].h

\* C26: movemouse and resizemouse return at once, with no grab, unless the
\* selected monitor has a selected client that is not fullscreen; in the
\* drag, a motion on a tiled client under an arranging layout that asks for
\* a position or size further than snap from the one the client has makes
\* the client floating, and a motion within snap leaves its floating flag
\* and its geometry as they are.
C26_DragPullsTileOut ==
    /\ entered(Cur)
    /\ (drag.kind # "none" /\ ~heap[drag.c].isfloating /\ arranging(Cur)) =>
           \A p \in MotionProbes :
               pulledout(Cur, mouseEvent(Cur, drag, Motion(p)), drag,
                         Motion(p))

\* the release of the button, as the loop of a drag gets it
Release == Event("ButtonRelease", 0, 0, 0, 0)

\* the monitor the client c of W lies on most
lieson(W, c) ==
    recttomon(W, W.heap[c].x, W.heap[c].y, W.heap[c].w, W.heap[c].h)

\* in V the client c, which the monitor o had, belongs to the monitor m and
\* to no other, is tagged with what m shows, and is the selected client of
\* m, the selected monitor
handedover(V, c, o, m) ==
    /\ V.heap[c].mon = m
    /\ Occurrences(ClientList(V, m), c) = 1
    /\ Occurrences(StackList(V, m), c) = 1
    /\ Occurrences(ClientList(V, o), c) = 0
    /\ Occurrences(StackList(V, o), c) = 0
    /\ V.heap[c].tags = ActiveTags(V.mons[m])
    /\ V.selmon = m
    /\ V.mons[m].sel = c

\* V has every client on the monitor, in the lists and under the tags it has
\* in W, and the selected monitor of W
stayed(W, V) ==
    /\ V.selmon = W.selmon
    /\ \A m \in 1 .. Len(W.mons) :
           /\ ClientList(V, m) = ClientList(W, m)
           /\ StackList(V, m) = StackList(W, m)
    /\ \A d \in managedin(W) :
           V.heap[d].mon = W.heap[d].mon /\ V.heap[d].tags = W.heap[d].tags

\* the drag of c has ended in V, having been at W when the button was
\* released
released(W, V, c) ==
    IF lieson(W, c) # W.selmon
    THEN handedover(V, c, W.heap[c].mon, lieson(W, c))
    ELSE stayed(W, V)

\* C27: when the button is released in a drag of the client c, and the
\* monitor c lies on most is not the selected monitor, then on return c
\* belongs to that monitor (once in each of its lists, in none of the old
\* monitor's), has that monitor's active tags, and is the selected client of
\* that monitor, which is the selected monitor; otherwise owner, lists, tags
\* and selected monitor are as they were.  The drag is over.
C27_ReleaseHandsOver ==
    drag.kind # "none" =>
        /\ released(Cur, mouseTurn(Cur, drag, Release).W, drag.c)
        /\ mouseTurn(Cur, drag, Release).D = NoDrag

\* a drag has taken its client onto the other monitor, and the button is
\* still down
C27_Witness ==
    /\ drag.kind # "none"
    /\ lieson(Cur, drag.c) # selmon
    /\ heap[drag.c].mon = selmon

\* the kinds of event the loop of a drag hands to the main table, and those
\* the claim names as left alone
PassedOn == {"ConfigureRequest", "Expose", "MapRequest"}
LeftAlone == {"KeyPress", "ButtonPress", "DestroyNotify", "UnmapNotify",
              "EnterNotify", "PropertyNotify", "ClientMessage"}

\* the events the loop of a drag is asked about: every kind, for every
\* window, with a tag, an action or a value mask as its detail
EventProbes ==
    { Event(type, w, d, 50, 30) :
          type \in PassedOn \cup LeftAlone \cup {"MotionNotify", "ButtonRelease"},
          w \in Windows, d \in {1, 2, CWX + CWY + CWWidth + CWHeight} }

\* one turn of the loop of the drag D at W with the event e: the main
\* table's handler runs for the three kinds passed on and for no other
dispatched(W, D, e) ==
    /\ e.type \in PassedOn => mouseEvent(W, D, e) = handler(W, e)
    /\ e.type \in LeftAlone => mouseEvent(W, D, e) = W

\* the loop goes on with the same drag unless the button was released, and
\* then the drag is over
exits(D, T, e) ==
    IF e.type = "ButtonRelease" THEN T.D = NoDrag ELSE T.D = D

\* C28: in the loop of a drag the handlers of the main table run for
\* configure requests, expose events and map requests only; a key press,
\* button press, destroy, unmap, enter, property or client message event
\* runs no handler and changes nothing while the drag lasts; the loop ends
\* on the turn that gets a button release, whenever one arrives, and on no
\* other event.
C28_DragLoopDispatch ==
    drag.kind # "none" =>
        \A e \in EventProbes :
            /\ dispatched(Cur, drag, e)
            /\ exits(drag, mouseTurn(Cur, drag, e), e)

\* a drag is on while a client is managed whose destroy notify, handled by
\* the main table, would take it away
C28_Witness ==
    /\ drag.kind # "none"
    /\ \E e \in EventProbes :
           /\ e.type = "DestroyNotify"
           /\ heap[e.window].managed
           /\ handler(Cur, e) # Cur

\* the arguments setlayout is asked about: null and every layout
LayoutProbes == 0 .. Len(layouts)

\* as stated: setlayout(v) has made the monitor N of M by flipping the
\* selector for a null argument, and by putting v into the active slot, the
\* selector kept, for any other
setlayoutInPlace(M, N, v) ==
    IF v = 0
    THEN N.sellt = 1 - M.sellt /\ N.lt = M.lt
    ELSE /\ N.sellt = M.sellt
         /\ N.lt[M.sellt + 1] = v
         /\ N.lt[2 - M.sellt] = M.lt[2 - M.sellt]

\* C29, as stated: setlayout with no argument flips the selector of the
\* selected monitor and changes neither slot; with a layout as argument it
\* keeps the selector and puts the layout into the active slot, the other
\* slot unchanged; afterwards the layout symbol is that of the active layout.
C29_SetLayoutInPlace ==
    \A v \in LayoutProbes :
        /\ setlayoutInPlace(mons[selmon], setlayout(Cur, v).mons[selmon], v)
        /\ setlayout(Cur, v).mons[selmon].ltsymbol
               = CurLayout(setlayout(Cur, v).mons[selmon]).symbol

\* setlayout(v) has made the monitor N of M: the selector is flipped unless v
\* is the active layout, and v, if not null, is in the slot that is active
\* afterwards; the slot that was active keeps its layout unless it is still
\* the active one
setlayoutDone(M, N, v) ==
    IF v = 0
    THEN N.sellt = 1 - M.sellt /\ N.lt = M.lt
    ELSE IF v = M.lt[M.sellt + 1]
    THEN N.sellt = M.sellt /\ N.lt = M.lt
    ELSE /\ N.sellt = 1 - M.sellt
         /\ N.lt[N.sellt + 1] = v
         /\ N.lt[M.sellt + 1] = M.lt[M.sellt + 1]

\* the number of visible clients of the selected monitor
shown(V) == countvisible(V, ClientList(V, V.selmon))

\* the layout symbol of the selected monitor is that of its active layout,
\* or, under monocle with a client selected and one visible, the count
symbolshown(V) ==
    V.mons[V.selmon].ltsymbol =
        IF /\ Sel(V) # 0
           /\ CurLayout(V.mons[V.selmon]).arrange = "monocle"
           /\ shown(V) > 0
        THEN "[" \o ToString(shown(V)) \o "]"
        ELSE CurLayout(V.mons[V.selmon]).symbol

\* C29, amended: setlayout with no argument flips the selector of the
\* selected monitor and changes neither slot; with the active layout as
\* argument it changes neither selector nor slots; with any other layout it
\* flips the selector and puts the layout into the slot that is active then,
\* the slot active before unchanged.  Afterwards the layout symbol is that of
\* the active layout, except that with a client selected, monocle active and
\* a client visible it is "[n]", n the number of visible clients.
C29_SetLayoutFlips ==
    \A v \in LayoutProbes :
        /\ setlayoutDone(mons[selmon], setlayout(Cur, v).mons[selmon], v)
        /\ symbolshown(setlayout(Cur, v))

\* setlayout has put monocle into the second slot and made it the active
\* one, with a client selected: the symbol is the count
C29_Witness ==
    /\ Sel(Cur) # 0
    /\ mons[selmon].sellt = 1
    /\ mons[selmon].lt = <<1, 3>>
    /\ mons[selmon].ltsymbol = "[1]"

\* the clients monocle arranges on the monitor m: visible and not floating
monocled(W, m) ==
    { c \in OwnedBy(W, m) : ISVISIBLE(W, c) /\ ~W.heap[c].isfloating }

\* in V the client c fills the window area of the monitor M within its border
filling(V, M, c) ==
    /\ V.heap[c].x = M.wx
    /\ V.heap[c].y = M.wy
    /\ V.heap[c].w = M.ww - 2 * V.heap[c].bw
    /\ V.heap[c].h = M.wh - 2 * V.heap[c].bw

\* V has the client d with the geometry it has in W
unmoved(W, V, d) ==
    /\ V.heap[d].x = W.heap[d].x /\ V.heap[d].y = W.heap[d].y
    /\ V.heap[d].w = W.heap[d].w /\ V.heap[d].h = W.heap[d].h

\* monocle has left V from W: the clients it arranges on m fill the window
\* area, every other client is where it was
monocleDone(W, V, m) ==
    /\ \A c \in monocled(W, m) : filling(V, W.mons[m], c)
    /\ \A d \in managedin(W) \ monocled(W, m) : unmoved(W, V, d)

\* C30, as stated: monocle gives every visible client of the monitor that is
\* not floating the geometry (wx, wy, ww - 2*bw, wh - 2*bw), leaves floating
\* and invisible clients where they are, and sets the layout symbol to "[n]",
\* n being the number of visible clients that are not floating.
C30_MonocleCountsTiled ==
    \A m \in 1 .. Len(mons) :
        /\ monocleDone(Cur, monocle(Cur, m), m)
        /\ monocle(Cur, m).mons[m].ltsymbol
               = "[" \o ToString(Cardinality(monocled(Cur, m))) \o "]"

\* the visible clients of the monitor m, floating or not
visiblein(W, m) == { c \in OwnedBy(W, m) : ISVISIBLE(W, c) }

\* monocle has left in V the symbol of the monitor m of W: the number of its
\* visible clients, or, with none, the symbol it had
monocleSymbol(W, V, m) ==
    V.mons[m].ltsymbol =
        IF visiblein(W, m) = {} THEN W.mons[m].ltsymbol
        ELSE "[" \o ToString(Cardinality(visiblein(W, m))) \o "]"

\* the window area of the monitor m leaves every client monocle arranges the
\* least size within its border
monocleRoom(W, m) ==
    \A c \in monocled(W, m) :
        /\ W.mons[m].ww - 2 * W.heap[c].bw >= bh
        /\ W.mons[m].wh - 2 * W.heap[c].bw >= bh

\* C30, amended: on a monitor whose window area, less the borders, is at
\* least the bar height each way, monocle gives every visible client that is
\* not floating the geometry (wx, wy, ww - 2*bw, wh - 2*bw) and leaves
\* floating and invisible clients where they are; it sets the layout symbol
\* to "[n]", n being the number of visible clients of the monitor, floating
\* ones included, and leaves the symbol alone when no client is visible.
C30_MonocleCountsVisible ==
    \A m \in 1 .. Len(mons) :
        /\ monocleRoom(Cur, m) => monocleDone(Cur, monocle(Cur, m), m)
        /\ monocleSymbol(Cur, monocle(Cur, m), m)

\* monocle is the layout of the selected monitor and has arranged it with one
\* client visible, a floating one: the symbol counts it
C30_Witness ==
    /\ CurLayout(mons[selmon]).arrange = "monocle"
    /\ Sel(Cur) # 0
    /\ visiblein(Cur, selmon) = {Sel(Cur)}
    /\ heap[Sel(Cur)].isfloating
    /\ mons[selmon].ltsymbol = "[1]"

-----------------------------------------------------------------------------
(* The master fraction, once more *)

\* what setmfact(f) is to store: f - 1.0 for f from 1.0 on, mfact + f below
mfactCandidate(W, f) == IF f >= 100 THEN f - 100 ELSE selmfact(W) + f

\* setmfact(f) has left V from W
setmfactDone(W, V, f) ==
    IF arranging(W) /\ mfactCandidate(W, f) >= 5 /\ mfactCandidate(W, f) <= 95
    THEN selmfact(V) = mfactCandidate(W, f)
    ELSE V = W

\* C32: under an arranging layout setmfact(f) takes f - 1.0 for f >= 1.0 and
\* mfact + f for f < 1.0 (f may be negative), and stores it only if it lies
\* in [0.05, 0.95]; otherwise mfact, and all the state, is left as it is,
\* never set to a limit; under a layout without an arrange function setmfact
\* changes nothing.
C32_MFactCandidate ==
    \A f \in MFactProbes : setmfactDone(Cur, setmfact(Cur, f), f)

\* setmfact has lowered mfact under tile, and the layout is now the floating
\* one, under which a candidate within the limits is not stored
C32_Witness ==
    /\ ~arranging(Cur)
    /\ selmfact(Cur) = 50
    /\ mfactCandidate(Cur, 110) = 10
    /\ setmfact(Cur, 110) = Cur

-----------------------------------------------------------------------------
(* Several rules *)

\* class, instance and title of the windows applyrules is asked about: those
\* of C15, and one that matches a rule naming a monitor and, after it, a rule
\* naming none
RuleProbes == RuleHints \cup { FooMonHint }

\* the tags of the matching rules among the first i, ORed
RECURSIVE ruletags(_, _)
ruletags(hint, i) ==
    IF i = 0 THEN 0
    ELSE Or(IF i \in matching(hint) THEN rules[i].tags ELSE 0,
            ruletags(hint, i - 1))

\* the last rule that matches
lastrule(hint) == CHOOSE i \in matching(hint) : \A j \in matching(hint) : j <= i

\* the matching rules that name a monitor there is
naming(W, hint) ==
    { i \in matching(hint) : monitorByNum(W, rules[i].monitor) # 0 }

\* the client record R has the floating flag of the last matching rule, and
\* the ORed tags within TAGMASK or, with none, the active tags of its monitor
flaggedAndTagged(W, R, hint) ==
    /\ R.isfloating = rules[lastrule(hint)].isfloating
    /\ R.tags = IF And(ruletags(hint, Len(rules)), TAGMASK) # 0
                THEN And(ruletags(hint, Len(rules)), TAGMASK)
                ELSE ActiveTags(W.mons[R.mon])

\* as stated: the monitor is the one the last matching rule names, the
\* selected monitor if it names none
monitorOfLast(W, R, hint) ==
    R.mon = IF monitorByNum(W, rules[lastrule(hint)].monitor) # 0
            THEN monitorByNum(W, rules[lastrule(hint)].monitor)
            ELSE W.selmon

\* the monitor is the one named by the last of the matching rules that name
\* a monitor there is, the selected monitor if none does
monitorOfLastNaming(W, R, hint) ==
    R.mon = IF naming(W, hint) = {} THEN W.selmon
            ELSE monitorByNum(W,
                     rules[CHOOSE i \in naming(W, hint) :
                               \A j \in naming(W, hint) : j <= i].monitor)

\* what applyrules makes of a new client of the selected monitor
applied(W, hint) == applyrules(W, [NoClient EXCEPT !.mon = W.selmon], hint)

\* C35, as stated: when several rules match a new window, its tags are the
\* OR of the tags of all matching rules within TAGMASK (the active tags of
\* its monitor if that is zero), and its floating flag and its monitor are
\* those of the last matching rule.
C35_LastRuleDecides ==
    \A hint \in RuleProbes :
        Cardinality(matching(hint)) >= 2 =>
            /\ flaggedAndTagged(Cur, applied(Cur, hint), hint)
            /\ monitorOfLast(Cur, applied(Cur, hint), hint)

\* C35, amended: the same, but the monitor is that of the last matching rule
\* that names a monitor there is; a later matching rule that names none
\* leaves it.
C35_LastNamingRuleDecides ==
    \A hint \in RuleProbes :
        Cardinality(matching(hint)) >= 2 =>
            /\ flaggedAndTagged(Cur, applied(Cur, hint), hint)
            /\ monitorOfLastNaming(Cur, applied(Cur, hint), hint)

\* a window was managed under two rules, the first naming the second
\* monitor, the last naming none: it is a floating client of the second
\* monitor, which was not the selected one
C35_Witness ==
    /\ matching(FooMonHint) = {3, 4}
    /\ Len(mons) = 2
    /\ selmon = 1
    /\ \E c \in Managed :
           /\ heap[c].mon = 2
           /\ heap[c].isfloating
           /\ heap[c].tags = And(ruletags(FooMonHint, Len(rules)), TAGMASK)

-----------------------------------------------------------------------------
(* The two views *)

\* the tag set the selected monitor shows, and the one in its other slot
shows(W) == ActiveTags(W.mons[W.selmon])
keeps(W) == W.mons[W.selmon].tagset[2 - W.mons[W.selmon].seltags]

\* V shows a and keeps s for the view before; B, the state after the
\* request for the previous view, shows s and keeps a
alternates(V, B, s, a) ==
    /\ shows(V) = a /\ keeps(V) = s
    /\ shows(B) = s /\ keeps(B) = a

\* V has the selector and the slots of the selected monitor of W
sameviews(W, V) ==
    /\ V.mons[W.selmon].seltags = W.mons[W.selmon].seltags
    /\ V.mons[W.selmon].tagset = W.mons[W.selmon].tagset

\* C37: when the selected monitor shows s, view(a) with a, within TAGMASK,
\* neither zero nor s makes a the active tag set with s in the other slot,
\* and a following view(0), the request for the previous view, makes s active
\* again with a in the other slot; view(a) with a equal to the active set
\* changes neither the selector nor a slot.
C37_ViewAlternates ==
    \A ui \in TagProbes :
        /\ (And(ui, TAGMASK) # 0 /\ And(ui, TAGMASK) # shows(Cur)) =>
               alternates(view(Cur, ui), view(view(Cur, ui), 0), shows(Cur),
                          And(ui, TAGMASK))
        /\ And(ui, TAGMASK) = shows(Cur) => sameviews(Cur, view(Cur, ui))

\* tag 2 was viewed from tag 1 and the previous view was asked for: tag 1 is
\* shown again, tag 2 is in the other slot
C37_Witness ==
    /\ steps = 2
    /\ mons[selmon].seltags = 0
    /\ mons[selmon].tagset = <<1, 2>>
    /\ shows(view(Cur, 0)) = 2

\* both tag slots of every monitor of W hold a tag and no bit outside TAGMASK
tagslotsvalid(W) ==
    \A m \in 1 .. Len(W.mons) :
        \A i \in 1 .. 2 :
            /\ W.mons[m].tagset[i] # 0
            /\ And(W.mons[m].tagset[i], TAGMASK) = W.mons[m].tagset[i]

\* C38: in every reachable state both tag slots of every monitor are non-zero
\* and within TAGMASK, whatever arguments view and toggleview were called
\* with and are called with next (zero and all ones among them); so the tags
\* sendmon gives a client, and those a window gets that no rule tags, are
\* never zero.
C38_TagSlotsValid ==
    /\ tagslotsvalid(Cur)
    /\ \A ui \in TagProbes :
           /\ tagslotsvalid(view(Cur, ui))
           /\ tagslotsvalid(toggleview(Cur, ui))
    /\ \A c \in Managed, m \in 1 .. Len(mons) :
           sendmon(Cur, c, m).heap[c].tags # 0
    /\ applied(Cur, PlainHint).tags # 0

\* the selected monitor shows both tags, with tag 1 in the other slot, and
\* owns a client: toggleview with all ones would leave no tag and is refused
C38_Witness ==
    /\ shows(Cur) = TAGMASK
    /\ keeps(Cur) = 1
    /\ OwnedBy(Cur, selmon) # {}
    /\ toggleview(Cur, AllOnes) = Cur

-----------------------------------------------------------------------------
(* Focus and the two lists *)

\* V has the client list of every monitor of W
clientlistskept(W, V) ==
    \A m \in 1 .. Len(W.mons) : ClientList(V, m) = ClientList(W, m)

\* V has the focus history of every monitor of W, but that t, if there is
\* one, has moved to the head of its monitor's
movedtohead(W, V, t) ==
    \A m \in 1 .. Len(W.mons) :
        StackList(V, m) =
            IF t # 0 /\ W.heap[t].mon = m
            THEN <<t>> \o without(StackList(W, m), t)
            ELSE StackList(W, m)

\* focus has left V from W: the client lists are the same, the client now
\* selected has moved to the head of its focus history and is not urgent
focusDoneInOrder(W, V) ==
    /\ clientlistskept(W, V)
    /\ movedtohead(W, V, Sel(V))
    /\ Sel(V) # 0 => ~V.heap[Sel(V)].isurgent

\* C33: focus(c) and focus(none) leave the client list of every monitor as
\* it is; of the focus histories they change only that of the chosen
\* client's monitor, the chosen client moving to its head and the others
\* keeping their order; the chosen client's urgent flag is cleared.
C33_FocusKeepsClientOrder ==
    \A c \in Managed \cup {0} : focusDoneInOrder(Cur, focus(Cur, c))

\* a visible client that is not the selected one and not at the head of its
\* focus history has asked for attention: focus on it moves it and clears
\* the flag
C33_Witness ==
    \E c \in Managed :
        /\ heap[c].isurgent
        /\ ISVISIBLE(Cur, c)
        /\ c # Sel(Cur)
        /\ StackList(Cur, heap[c].mon)[1] # c
        /\ Sel(focus(Cur, c)) = c

-----------------------------------------------------------------------------
(* C34 *)

\* V is W but that client c has its urgent flag set
onlyurgent(W, V, c) == V = [W EXCEPT !.heap[c].isurgent = TRUE]

\* the selected monitor, the selection, the client list and the focus
\* history of every monitor and the tags of every client are in V as in W
nofocusstolen(W, V) ==
    /\ V.selmon = W.selmon
    /\ \A m \in 1 .. Len(W.mons) :
           /\ V.mons[m].sel = W.mons[m].sel
           /\ ClientList(V, m) = ClientList(W, m)
           /\ StackList(V, m) = StackList(W, m)
           /\ V.mons[m].tagset = W.mons[m].tagset
    /\ \A c \in Windows : V.heap[c].tags = W.heap[c].tags

\* what the message for window w has made of W
activated(W, V, w) ==
    IF wintoclient(W, w) # 0 /\ w # Sel(W)
    THEN onlyurgent(W, V, w) /\ V.heap[w].isurgent /\ nofocusstolen(W, V)
    ELSE V = W

\* C34: a _NET_ACTIVE_WINDOW message for a managed client other than the
\* selected client of the selected monitor sets its urgent flag and changes
\* nothing else, so the selected monitor, every selection, both lists and all
\* tags stay; for the selected client or an unmanaged window nothing changes.
C34_ActiveWindowMarksUrgent ==
    \A w \in Windows : activated(Cur, clientmessageActive(Cur, w), w)

\* a message has marked a client that is not the selected one, and the
\* selected client is still another one
C34_Witness ==
    \E w \in Managed :
        /\ Sel(Cur) # 0
        /\ w # Sel(Cur)
        /\ ~Cur.heap[Sel(Cur)].isurgent
        /\ Cur.heap[w].isurgent

-----------------------------------------------------------------------------
(* C36 *)

\* killclient, togglefloating, tag, toggletag, tagmon, movemouse,
\* resizemouse and focusstack, with every argument, leave W as it is and
\* send or grab nothing
silentbutzoom(W) ==
    /\ \A hasdelete \in BOOLEAN : killclient(W, hasdelete) = "nothing"
    /\ togglefloating(W) = W
    /\ \A ui \in TagArgs : tag(W, ui) = W /\ toggletag(W, ui) = W
    /\ \A dir \in {-1, 1} : tagmon(W, dir) = W /\ focusstack(W, dir) = W
    /\ \A motions \in Drags : movemouse(W, motions) = W
    /\ \A grabbed \in BOOLEAN, ptr \in Pointers :
           /\ movemouseBegin(W, grabbed, ptr) = NoDrag
           /\ resizemouseBegin(W, grabbed) = NoDrag

\* zoom leaves W as it is and never reaches pop with no client
silentzoom(W) == ~zoomCrashes(W) /\ zoom(W) = W

\* C36: when the selected monitor has no selected client, killclient,
\* togglefloating, tag, toggletag, tagmon, movemouse, resizemouse, focusstack
\* and zoom change nothing, command nothing and never use a missing client.
C36_NoSelectionNoOp ==
    Sel(Cur) = 0 => silentbutzoom(Cur) /\ silentzoom(Cur)

-----------------------------------------------------------------------------
(* C31 *)

\* the stacking orders of the windows S, from the bottom to the top
RECURSIVE Orders(_)
Orders(S) ==
    IF S = {} THEN { << >> }
    ELSE UNION { { <<w>> \o z : z \in Orders(S \ {w}) } : w \in S }

\* the windows of the display: the bar of every monitor and the window of
\* every client
Mapped == { barwin(m) : m \in 1 .. Len(mons) } \cup Managed

\* the place of window w in the stacking order z, 1 being the bottom
height(z, w) == CHOOSE i \in 1 .. Len(z) : z[i] = w

\* the windows of the list l in the stacking order z, from the top down
RECURSIVE topdown(_, _)
topdown(z, l) ==
    IF z = << >> THEN << >>
    ELSE IF \E i \in 1 .. Len(l) : l[i] = z[Len(z)]
    THEN <<z[Len(z)]>> \o topdown(SubSeq(z, 1, Len(z) - 1), l)
    ELSE topdown(SubSeq(z, 1, Len(z) - 1), l)

\* the reverse of the list l
RECURSIVE bottomup(_)
bottomup(l) ==
    IF l = << >> THEN << >> ELSE bottomup(Tail(l)) \o <<l[1]>>

\* restack(m) has an arrange function and a selected client to work with
restacks(W, m) ==
    W.mons[m].sel # 0 /\ CurLayout(W.mons[m]).arrange # "none"

\* in the stacking order z the bar of m is below every client of the list t
\* and t is the order of its clients from the bottom up
barlowest(z, m, t) ==
    /\ \A i \in 1 .. Len(t) : height(z, barwin(m)) < height(z, t[i])
    /\ bottomup(topdown(z, t)) = t

\* in the stacking order z the bar of m is above every client of the list t
\* and t is the order of its clients from the top down
barabove(z, m, t) ==
    /\ \A i \in 1 .. Len(t) : height(z, barwin(m)) > height(z, t[i])
    /\ topdown(z, t) = t

\* C31 as stated: after restack(m), with an arrange function and a selected
\* client, the bar is the lowest window, below every visible non-floating
\* client of m, and these clients lie from the bottom to the top in the
\* order of the focus history read from its head.
C31_RestackBarLowest ==
    \A m \in 1 .. Len(mons), z \in Orders(Mapped) :
        restacks(Cur, m) =>
            barlowest(restackOrder(Cur, m, z), m,
                      nexttiled(Cur, StackList(Cur, m)))

\* C31: after restack(m), with an arrange function and a selected client,
\* the bar is above every visible non-floating client of m, and these
\* clients lie from the top to the bottom in the order of the focus history
\* read from its head, whatever the stacking order was before.
C31_RestackBarAbove ==
    \A m \in 1 .. Len(mons), z \in Orders(Mapped) :
        restacks(Cur, m) =>
            barabove(restackOrder(Cur, m, z), m,
                     nexttiled(Cur, StackList(Cur, m)))

\* two tiled clients are shown on a monitor that has a selected client,
\* and the one focused last is not the head of the client list
C31_Witness ==
    \E m \in 1 .. Len(mons) :
        /\ restacks(Cur, m)
        /\ Len(nexttiled(Cur, StackList(Cur, m))) >= 2
        /\ nexttiled(Cur, StackList(Cur, m))
               # nexttiled(Cur, ClientList(Cur, m))

-----------------------------------------------------------------------------
(* C39 *)

\* the windows that _NET_CLIENT_LIST names in W
published(W) == { W.root.clientlist[i] : i \in 1 .. Len(W.root.clientlist) }

\* _NET_CLIENT_LIST names the managed clients of W and each of them once
exactlymanaged(W) ==
    /\ published(W) = { c \in Windows : W.heap[c].managed }
    /\ Len(W.root.clientlist) = Cardinality(published(W))

\* C39: when a handler has returned, _NET_CLIENT_LIST holds the windows of
\* the managed clients and each of them once; sending the selected client
\* to another monitor leaves the property as it is.
C39_ClientListExact ==
    /\ exactlymanaged(Cur)
    /\ \A dir \in {-1, 1} : tagmon(Cur, dir).root.clientlist = root.clientlist

\* a window is managed and published after one that was mapped before it
\* has been unmanaged, the list having been built anew without that one
C39_Witness ==
    \E w \in Managed, v \in Windows :
        /\ v < w
        /\ ~heap[v].managed
        /\ root.clientlist = updateclientlistFrom(Cur, 1)
        /\ w \in published(Cur)

-----------------------------------------------------------------------------
(* C40 *)

\* _NET_ACTIVE_WINDOW is absent in V or names the selected client of the
\* selected monitor, and it is absent when no client is selected
activeisselected(V) ==
    /\ V.root.active \in {0, Sel(V)}
    /\ Sel(V) = 0 => V.root.active = 0

\* C40: after focus(c) and after focus(none), _NET_ACTIVE_WINDOW is absent
\* or names the selected client of the selected monitor; it is absent when
\* no client was chosen and never names a client selected before.
C40_ActiveWindowIsSelected ==
    \A c \in Managed \cup {0} : activeisselected(focus(Cur, c))
====
